---- MODULE Spec2Model ----
(***************************************************************************)
(* State-machine model of the DSU Discord bot:                             *)
(*   - process start-up (index.js: initializeBot, connectToDiscord, the    *)
(*     'ready' handler, the HTTP health server),                           *)
(*   - the DSU scheduler's two cron callbacks and their send path          *)
(*     (schedulers/dsu-scheduler.js),                                      *)
(*   - the manual command handler (index.js: 'messageCreate'),             *)
(*   - the ThreadManager (utils/thread-manager.js).                        *)
(* Every await on the messaging gateway is a suspension point: the handler *)
(* stops in a pc value and a separate action delivers the gateway's        *)
(* answer.  The logger is a write-only sink whose calls do not throw; the  *)
(* entries a handler writes are kept as tags in the handler's log.         *)
(***************************************************************************)
EXTENDS Integers, Sequences, FiniteSets, TLC

\* ------------------------------------------------------------------------
\* Bounds of the model
\* ------------------------------------------------------------------------
MaxEvents == 2      \* cron fires, messageCreate events and health requests
MaxDirect == 2      \* direct ThreadManager calls made by a test script
MaxValidators == 2  \* validator instances a script constructs
MaxRuns == 2        \* validateConfiguration / validateChannel calls
MaxStops == 2       \* stop() calls on the scheduler
MaxFires == 2          \* cron callbacks run on one scheduler object
MaxRestarts == 1       \* start() calls after the first one
MaxTicks == 2       \* cron ticks delivered to registered jobs

\* ------------------------------------------------------------------------
\* Program constants
\* ------------------------------------------------------------------------
Kinds == {"morning", "evening"}
Days == 0..6                           \* getDay(): 0 = Sunday .. 6 = Saturday
validCommands == {"!dsu-morning", "!dsu-evening", "!dsu-help", "!dsu-status"}
supportedTypes == {0, 5}               \* text and announcement channels
ChannelTypes == {0, 2, 5}              \* 2 = voice, a type without threads
TitleLimit == 100                      \* Discord's thread-name limit
ErrCodes == {0, 50013, 50035, 160002}  \* 0 = an error without a mapped code
Callers == {"morning", "evening", "manual", "direct"}
Instances == {"scheduler", "index", "harness"}

VARIABLES
    env,          \* process.env snapshot
    proc,         \* where the process is in its life cycle
    exitCode,     \* -1 while alive, else the code given to process.exit
    configReport, \* validationResults of ConfigValidator, ran = FALSE before
    loginAttempted,
    channelCheck, \* "none" | "running" | "passed" | "failed" | "threw"
    startCalled,  \* dsuScheduler.start() has been invoked
    job,          \* morningJob / eveningJob: "null" | "running" | "stopped"
    http,         \* "pending" | "listening"
    health,       \* last answer of GET /health: "none" or the scheduler part
    today,        \* local day of week in the configured timezone
    fire,         \* per kind: the current (or last) cron callback invocation
    eventCount,   \* external events handled so far (fires, messages, requests)
    manual,       \* the current (or last) messageCreate handler invocation
    tmEnabled,    \* threadConfig.enabled of each ThreadManager instance
    tmCall,       \* per caller: the ThreadManager.createDSUThread invocation
    directCount,
    cv,           \* ConfigValidator instances of a script and their reports
    chv,          \* ChannelValidator instances of a script and their reports
    sched,        \* the DSUScheduler singleton: expressions, jobs, calls
    shutdown,     \* gracefulShutdown: its phase, force-exit timer and steps
    probe         \* the last call of a function examined on its own

botVars == << env, proc, exitCode, configReport, loginAttempted, channelCheck,
              startCalled, job, http, health, today, fire, eventCount, manual,
              tmEnabled, tmCall, directCount >>
unitVars == << cv, chv, sched, shutdown, probe >>
vars == << botVars, unitVars >>

procVars == << proc, exitCode, configReport, loginAttempted, channelCheck,
               startCalled, job >>
handlerVars == << fire, manual >>
tmVars == << tmEnabled, tmCall, directCount >>

\* ------------------------------------------------------------------------
\* Configuration validation (utils/config-validator.js)
\* ------------------------------------------------------------------------
Envs ==
    [ token : {"ok", "short"},
      channelId : {"ok", "missing"},
      timezoneOk : BOOLEAN,
      autoThreads : BOOLEAN,
      initialThreadMessage : BOOLEAN ]

validateRequiredVars(e) ==
    (IF e.token # "ok" THEN {"INVALID_DISCORD_BOT_TOKEN"} ELSE {})
    \cup (IF e.channelId # "ok" THEN {"INVALID_DSU_CHANNEL_ID"} ELSE {})

validateSchedulingConfig(e) ==
    IF e.timezoneOk THEN {} ELSE {"INVALID_TIMEZONE"}

assessValidation(errors) ==
    LET hasErrors == Cardinality(errors) > 0 IN ~hasErrors

validateConfiguration(e) ==
    LET errors == validateRequiredVars(e) \cup validateSchedulingConfig(e)
    IN  [ ran |-> TRUE, passed |-> assessValidation(errors),
          errors |-> errors ]

NoReport == [ ran |-> FALSE, passed |-> FALSE, errors |-> {} ]

\* ------------------------------------------------------------------------
\* Templates (config/dsu-templates.js)
\* ------------------------------------------------------------------------
\* The embed both getMorningTemplate and getEveningTemplate return: a title,
\* a color (a number, possibly NaN, never undefined) and a fields array.
getTemplate(kind) ==
    [ kind |-> kind, hasEmbeds |-> TRUE, title |-> TRUE,
      colorDefined |-> TRUE, fieldsIsArray |-> TRUE ]

validateTemplate(t) ==
    IF t.hasEmbeds THEN t.title /\ t.colorDefined /\ t.fieldsIsArray ELSE FALSE

\* module.exports of config/dsu-templates.js has no generateThreadTitle, so
\* the name the scheduler and index.js import is undefined in both.
exportsOfTemplates ==
    { "getMorningTemplate", "getEveningTemplate", "getMorningTemplateText",
      "getEveningTemplateText", "getMorningTemplateCompact",
      "getEveningTemplateCompact", "getCurrentDate", "getCurrentTime",
      "buildMentionString", "getCustomTemplate", "validateTemplate",
      "DSU_CONFIG" }

\* Calling the imported generateThreadTitle(type): a TypeError ("is not a
\* function") when the binding is undefined.
generateThreadTitle(kind) ==
    [ threw |-> "generateThreadTitle" \notin exportsOfTemplates, len |-> 0 ]

\* ------------------------------------------------------------------------
\* Time (schedulers/dsu-scheduler.js)
\* ------------------------------------------------------------------------
\* Variant: the lower bound off by one, so that Sunday counts as a weekday.
isWeekday_sundayIncluded(dayOfWeek) == dayOfWeek >= 0 /\ dayOfWeek <= 5

isWeekday(dayOfWeek) == dayOfWeek >= 1 /\ dayOfWeek <= 5

\* ------------------------------------------------------------------------
\* ThreadManager (utils/thread-manager.js)
\* ------------------------------------------------------------------------
\* The message arguments createDSUThread is given.  perm is what
\* message.channel.permissionsFor(...) yields: an object that has or lacks
\* CreatePublicThreads, or null (whose .has() is a TypeError).
NullMessage ==
    [ isNull |-> TRUE, hasChannel |-> FALSE, chType |-> 0, perm |-> "null" ]

Messages ==
    { NullMessage,
      [ NullMessage EXCEPT !.isNull = FALSE ] }       \* a message, no channel
    \cup [ isNull : {FALSE}, hasChannel : {TRUE}, chType : ChannelTypes,
           perm : {"granted", "denied", "null"} ]

\* Messages the gateway hands back from channel.send(): real message objects.
SentMessages == { m \in Messages : ~m.isNull /\ m.hasChannel }

TitleLens == {11, TitleLimit + 1}

\* Variant: every guild channel type counts as supporting threads.
channelSupportsThreads_anyType(chType) == chType \in ChannelTypes

channelSupportsThreads(chType) == chType \in supportedTypes

NoCall ==
    [ pc |-> "none", inst |-> "harness", msg |-> NullMessage,
      titleLen |-> 0, kind |-> "morning", result |-> "none", threw |-> FALSE,
      wasEnabled |-> FALSE, permQueries |-> 0, startThreads |-> 0,
      threadSends |-> 0, initialSent |-> FALSE ]

\* Variant: the message check sits outside the try block and throws.
createDSUThreadBegin_uncaughtCheck(inst, enabled, m, titleLen, kind) ==
    LET base == [ NoCall EXCEPT !.inst = inst, !.msg = m, !.titleLen = titleLen,
                                !.kind = kind, !.wasEnabled = enabled ]
        null == [ base EXCEPT !.pc = "returned", !.result = "null" ]
    IN  IF ~enabled THEN null
        ELSE IF m.isNull \/ ~m.hasChannel
             THEN [ base EXCEPT !.pc = "returned", !.threw = TRUE ]
        ELSE IF ~channelSupportsThreads(m.chType) THEN null
        ELSE IF m.perm # "granted"
             THEN [ null EXCEPT !.permQueries = 1 ]
        ELSE [ base EXCEPT !.pc = "startThread", !.permQueries = 1,
                           !.startThreads = 1 ]

\* Variant: the toggle is consulted only after the permission query.
createDSUThreadBegin_toggleAfterPermissions(inst, enabled, m, titleLen, kind) ==
    LET base == [ NoCall EXCEPT !.inst = inst, !.msg = m, !.titleLen = titleLen,
                                !.kind = kind, !.wasEnabled = enabled ]
        null == [ base EXCEPT !.pc = "returned", !.result = "null" ]
    IN  IF m.isNull \/ ~m.hasChannel THEN null
        ELSE IF ~channelSupportsThreads(m.chType) THEN null
        ELSE IF m.perm # "granted" \/ ~enabled
             THEN [ null EXCEPT !.permQueries = 1 ]
        ELSE [ base EXCEPT !.pc = "startThread", !.permQueries = 1,
                           !.startThreads = 1 ]

\* createDSUThread up to its first await (or its return, when it has none).
createDSUThreadBegin(inst, enabled, m, titleLen, kind) ==
    LET base == [ NoCall EXCEPT !.inst = inst, !.msg = m, !.titleLen = titleLen,
                                !.kind = kind, !.wasEnabled = enabled ]
        null == [ base EXCEPT !.pc = "returned", !.result = "null" ]
    IN  IF ~enabled THEN null
        ELSE IF m.isNull \/ ~m.hasChannel THEN null    \* throw, caught
        ELSE IF ~channelSupportsThreads(m.chType) THEN null
        ELSE IF m.perm = "null"                         \* TypeError, caught
             THEN [ null EXCEPT !.permQueries = 1 ]
        ELSE IF m.perm # "granted"
             THEN [ null EXCEPT !.permQueries = 1 ]
        ELSE [ base EXCEPT !.pc = "startThread", !.permQueries = 1,
                           !.startThreads = 1 ]

\* The answers of message.startThread(): a thread, nothing, or a rejection.
StartThreadAnswers ==
    { [ what |-> "thread", code |-> 0 ], [ what |-> "nothing", code |-> 0 ] }
    \cup [ what : {"error"}, code : ErrCodes ]

\* createDSUThread from the answer of startThread to its next await or return.
createDSUThreadAfterStart(call, answer, sendInitialMessage) ==
    IF answer.what = "thread"
    THEN IF sendInitialMessage
         THEN [ call EXCEPT !.pc = "threadSend", !.threadSends = 1 ]
         ELSE [ call EXCEPT !.pc = "returned", !.result = "thread" ]
    ELSE [ call EXCEPT !.pc = "returned", !.result = "null" ]  \* catch block

\* Variant: a rejected thread.send() reaches the catch block of
\* createDSUThread, which returns null.
createDSUThreadAfterSend_failureIsNull(call, sendOk) ==
    [ call EXCEPT !.pc = "returned",
                  !.result = IF sendOk THEN "thread" ELSE "null",
                  !.initialSent = sendOk ]

\* sendInitialThreadMessage after thread.send() settled; a rejection is
\* caught and logged there, and createDSUThread returns the thread.
createDSUThreadAfterSend(call, sendOk) ==
    [ call EXCEPT !.pc = "returned", !.result = "thread",
                  !.initialSent = sendOk ]

\* ------------------------------------------------------------------------
\* Scheduled dispatch (schedulers/dsu-scheduler.js)
\* ------------------------------------------------------------------------
Has(log, tag) == \E i \in DOMAIN log : log[i] = tag

IdleFire(kind) ==
    [ pc |-> "idle", kind |-> kind, fetchCalls |-> 0, sendCalls |-> 0,
      template |-> "none", channel |-> "none", sent |-> FALSE,
      threadCalls |-> 0, raised |-> FALSE, log |-> << >> ]

\* Variant: the fetch is issued without looking at the channel id first.
sendDSUBegin_noIdCheck(f, channelId) ==
    [ f EXCEPT !.log = Append(@, "attempt"), !.pc = "fetching",
               !.fetchCalls = @ + 1 ]

\* sendMorningDSU / sendEveningDSU up to the await on channels.fetch().
sendDSUBegin(f, channelId) ==
    LET f1 == [ f EXCEPT !.log = Append(@, "attempt") ]
    IN  IF channelId # "ok"
        THEN [ f1 EXCEPT !.pc = "done", !.log = Append(@, "noChannelId") ]
        ELSE [ f1 EXCEPT !.pc = "fetching", !.fetchCalls = @ + 1 ]

\* Variant: both triggers are registered with the morning handler.
cronCallback_sameHandler(kind, dayOfWeek, channelId) ==
    LET f == [ IdleFire(kind) EXCEPT !.kind = "morning" ]
    IN  IF isWeekday(dayOfWeek)
        THEN sendDSUBegin(f, channelId)
        ELSE [ f EXCEPT !.pc = "done", !.log = Append(@, "skip") ]

\* The cron callback registered by start(): the weekday gate, then the send.
cronCallback(kind, dayOfWeek, channelId) ==
    LET f == IdleFire(kind)
    IN  IF isWeekday(dayOfWeek)
        THEN sendDSUBegin(f, channelId)
        ELSE [ f EXCEPT !.pc = "done", !.log = Append(@, "skip") ]

\* Variant: the catch block issues the send once more.
catchSendError_retry(f) ==
    [ f EXCEPT !.pc = "sending", !.sendCalls = @ + 1,
               !.log = Append(@, "sendError") ]

\* Variant: the catch block logs and throws the error on.
catchSendError_rethrow(f) ==
    [ f EXCEPT !.pc = "done", !.raised = TRUE,
               !.log = Append(@, "sendError") ]

\* The catch block of sendMorningDSU / sendEveningDSU.
catchSendError(f) ==
    [ f EXCEPT !.pc = "done", !.log = Append(@, "sendError") ]

\* Variant: both kinds send the morning template (a copy-paste slip).
afterFetch_morningTemplate(f, answer) ==
    IF answer = "error" THEN catchSendError(f)
    ELSE IF answer = "nothing"
         THEN [ f EXCEPT !.pc = "done", !.log = Append(@, "noChannel") ]
         ELSE [ f EXCEPT !.pc = "sending", !.sendCalls = @ + 1,
                         !.template = getTemplate("morning").kind,
                         !.channel = "configured" ]

\* From the answer of channels.fetch() to the await on channel.send().
afterFetch(f, answer) ==
    IF answer = "error" THEN catchSendError(f)
    ELSE IF answer = "nothing"
         THEN [ f EXCEPT !.pc = "done", !.log = Append(@, "noChannel") ]
         ELSE [ f EXCEPT !.pc = "sending", !.sendCalls = @ + 1,
                         !.template = getTemplate(f.kind).kind,
                         !.channel = "configured" ]

\* Variant: createDSUThread without its try/catch, so that the error lands
\* in the catch block of the send.
threadFailureCaught_rethrown(f) == catchSendError(f)

\* The catch block of DSUScheduler.createDSUThread: log, do not rethrow; the
\* caller goes on to the log rotation and returns.
threadFailureCaught(f) ==
    [ f EXCEPT !.pc = "done", !.log = Append(@, "threadFailed") ]

\* DSUScheduler.createDSUThread up to the call of the ThreadManager.
schedCreateDSUThread(f, title) ==
    IF title.threw THEN threadFailureCaught(f)
    ELSE [ f EXCEPT !.pc = "threading", !.threadCalls = @ + 1 ]

\* DSUScheduler.createDSUThread after the ThreadManager returned.
schedAfterThread(f, result) ==
    [ f EXCEPT !.pc = "done",
               !.log = IF result = "thread" THEN Append(@, "threadOk") ELSE @ ]

\* From the answer of channel.send() on.
afterSend(f, ok) ==
    IF ~ok THEN catchSendError(f)
    ELSE schedCreateDSUThread(
             [ f EXCEPT !.sent = TRUE, !.log = Append(@, "sent") ],
             generateThreadTitle(f.kind))

\* ------------------------------------------------------------------------
\* Manual commands (index.js, client.on('messageCreate'))
\* ------------------------------------------------------------------------
Contents ==
    { "!dsu-morning", "!DSU-Morning", "!dsu-evening", "!dsu-help",
      "!dsu-status", "hello" }

toLowerCase(content) ==
    CASE content = "!DSU-Morning" -> "!dsu-morning"
      [] OTHER -> content

\* message.channel.permissionsFor(client.user): null, or a permission set.
ManualPerms ==
    [ isNull : {FALSE}, has : SUBSET {"SendMessages", "EmbedLinks"} ]
    \cup { [ isNull |-> TRUE, has |-> {} ] }

IdleManual ==
    [ pc |-> "idle", cmd |-> "none", weekday |-> TRUE, sendCalls |-> 0,
      template |-> "none", channel |-> "none", sent |-> FALSE,
      threadCalls |-> 0, replies |-> 0, raised |-> FALSE, log |-> << >> ]

commandKind(cmd) == IF cmd = "!dsu-morning" THEN "morning" ELSE "evening"

\* The outer catch of the handler: log, then reply with an error text.
manualCatch(m) ==
    [ m EXCEPT !.pc = "replyErr", !.log = Append(@, "cmdError"),
               !.replies = @ + 1 ]

\* Variant: the permission check passes when either permission is held.
messageCreateBegin_eitherPermission(authorBot, content, perms, dayOfWeek) ==
    LET command == toLowerCase(content)
        m == [ IdleManual EXCEPT !.weekday = isWeekday(dayOfWeek) ]
    IN  IF authorBot THEN [ m EXCEPT !.pc = "done" ]
        ELSE IF command \notin validCommands THEN [ m EXCEPT !.pc = "done" ]
        ELSE LET m1 == [ m EXCEPT !.cmd = command ]
             IN  IF perms.isNull THEN manualCatch(m1)
                 ELSE IF "SendMessages" \notin perms.has
                         /\ "EmbedLinks" \notin perms.has
                 THEN [ m1 EXCEPT !.pc = "replyPerm", !.replies = @ + 1,
                                  !.log = Append(@, "missingPerms") ]
                 ELSE IF command \in {"!dsu-morning", "!dsu-evening"}
                 THEN IF ~validateTemplate(getTemplate(commandKind(command)))
                      THEN [ m1 EXCEPT !.pc = "replyInvalid",
                                       !.replies = @ + 1 ]
                      ELSE [ m1 EXCEPT !.pc = "sending", !.sendCalls = @ + 1,
                                       !.template =
                                          getTemplate(commandKind(command)).kind,
                                       !.channel = "invoking" ]
                 ELSE [ m1 EXCEPT !.pc = "sendingInfo" ]

\* The handler up to its first await (or its return).
messageCreateBegin(authorBot, content, perms, dayOfWeek) ==
    LET command == toLowerCase(content)
        m == [ IdleManual EXCEPT !.weekday = isWeekday(dayOfWeek) ]
    IN  IF authorBot THEN [ m EXCEPT !.pc = "done" ]
        ELSE IF command \notin validCommands THEN [ m EXCEPT !.pc = "done" ]
        ELSE LET m1 == [ m EXCEPT !.cmd = command ]
             IN  IF perms.isNull THEN manualCatch(m1)
                 ELSE IF "SendMessages" \notin perms.has
                         \/ "EmbedLinks" \notin perms.has
                 THEN [ m1 EXCEPT !.pc = "replyPerm", !.replies = @ + 1,
                                  !.log = Append(@, "missingPerms") ]
                 ELSE IF command \in {"!dsu-morning", "!dsu-evening"}
                 THEN IF ~validateTemplate(getTemplate(commandKind(command)))
                      THEN [ m1 EXCEPT !.pc = "replyInvalid",
                                       !.replies = @ + 1 ]
                      ELSE [ m1 EXCEPT !.pc = "sending", !.sendCalls = @ + 1,
                                       !.template =
                                          getTemplate(commandKind(command)).kind,
                                       !.channel = "invoking" ]
                 ELSE [ m1 EXCEPT !.pc = "sendingInfo" ]

\* The inner try around thread creation: a failure is logged as a warning.
manualCreateThread(m, title) ==
    IF title.threw
    THEN [ m EXCEPT !.pc = "done", !.log = Append(@, "threadWarn") ]
    ELSE [ m EXCEPT !.pc = "threading", !.threadCalls = @ + 1 ]

manualAfterThread(m, result) ==
    [ m EXCEPT !.pc = "done",
               !.log = IF result = "thread" THEN Append(@, "threadOk") ELSE @ ]

\* The handler from a settled gateway call (send or reply) on.
messageCreateResume(m, ok) ==
    CASE m.pc = "sending" ->
            IF ok
            THEN manualCreateThread(
                     [ m EXCEPT !.sent = TRUE, !.log = Append(@, "sent") ],
                     generateThreadTitle(commandKind(m.cmd)))
            ELSE manualCatch(m)
      [] m.pc = "sendingInfo" ->
            IF ok THEN [ m EXCEPT !.pc = "done" ] ELSE manualCatch(m)
      [] m.pc = "replyInvalid" ->
            IF ok THEN [ m EXCEPT !.pc = "done" ] ELSE manualCatch(m)
      [] OTHER ->     \* replyPerm, replyErr: a failed reply is only logged
            [ m EXCEPT !.pc = "done" ]

\* ------------------------------------------------------------------------
\* Cron expressions (node-cron)
\* ------------------------------------------------------------------------
\* A cron expression is its sequence of fields; a field is "*", a number or
\* a range lo-hi, and text that is no number has lo = -1.
Star == [ star |-> TRUE, lo |-> 0, hi |-> 0 ]
Num(n) == [ star |-> FALSE, lo |-> n, hi |-> n ]
Range(a, b) == [ star |-> FALSE, lo |-> a, hi |-> b ]

DefaultCron ==
    [ morning |-> << Num(0), Num(9), Star, Star, Range(1, 5) >>,    \* '0 9 * * 1-5'
      evening |-> << Num(0), Num(17), Star, Star, Range(1, 5) >> ]  \* '0 17 * * 1-5'

Unset == << >>                  \* the variable is missing or empty

\* Values of MORNING_SCHEDULE / EVENING_SCHEDULE.
CustomCron == << Num(30), Num(8), Star, Star, Range(1, 5) >>  \* '30 8 * * 1-5'
SecondsCron == << Num(0), Num(0), Num(18), Star, Star, Range(1, 5) >>
Hour25Cron == << Num(0), Num(25), Star, Star, Star >>         \* '0 25 * * *'
FourFieldCron == << Num(0), Num(9), Star, Star >>             \* '0 9 * *'
TextCron == << Num(-1) >>                                     \* 'invalid'

CronInputs ==
    { Unset, CustomCron, SecondsCron, Hour25Cron, FourFieldCron, TextCron }

\* Lowest and highest value of the fields of a five-field expression.
FieldRange ==
    << [ lo |-> 0, hi |-> 59 ], [ lo |-> 0, hi |-> 23 ], [ lo |-> 1, hi |-> 31 ],
       [ lo |-> 1, hi |-> 12 ], [ lo |-> 0, hi |-> 7 ] >>

fieldValid(f, range) ==
    f.star \/ (range.lo <= f.lo /\ f.lo <= f.hi /\ f.hi <= range.hi)

\* cron.validate(expression): five fields, or six with leading seconds,
\* each within its range.
cronValidate(expr) ==
    LET five == IF Len(expr) = 6 THEN Tail(expr) ELSE expr
    IN  /\ Len(expr) \in {5, 6}
        /\ Len(expr) = 6 => fieldValid(expr[1], FieldRange[1])
        /\ \A i \in 1..5 : fieldValid(five[i], FieldRange[i])

\* ------------------------------------------------------------------------
\* ConfigValidator as an object (utils/config-validator.js)
\* ------------------------------------------------------------------------
\* Values of DISCORD_BOT_TOKEN: the length, and whether every character is
\* a letter, a digit, '.', '_' or '-'.  Length 0 is a missing or empty value.
Token60 == [ len |-> 60, charsOk |-> TRUE ]
Token10 == [ len |-> 10, charsOk |-> TRUE ]
Tokens ==
    { Token60, Token10, [ len |-> 0, charsOk |-> TRUE ],
      [ len |-> 49, charsOk |-> TRUE ], [ len |-> 50, charsOk |-> TRUE ],
      [ len |-> 60, charsOk |-> FALSE ] }

\* Values of DSU_CHANNEL_ID: the length, and whether it is all digits.
Id18 == [ len |-> 18, digits |-> TRUE ]
ChannelIdValues ==
    { Id18, [ len |-> 0, digits |-> TRUE ], [ len |-> 16, digits |-> TRUE ],
      [ len |-> 20, digits |-> TRUE ], [ len |-> 18, digits |-> FALSE ] }

\* Values of a color variable: the length, and whether it is all hex
\* digits.  Length 0 is a missing or empty value.
ColorKeys ==
    << "MORNING_COLOR", "EVENING_COLOR", "SUCCESS_COLOR", "WARNING_COLOR" >>
ColorErrors ==                       \* `INVALID_${colorKey}`
    << "INVALID_MORNING_COLOR", "INVALID_EVENING_COLOR",
       "INVALID_SUCCESS_COLOR", "INVALID_WARNING_COLOR" >>
ColorUnset == [ len |-> 0, hex |-> TRUE ]
ColorValues ==
    { ColorUnset, [ len |-> 6, hex |-> TRUE ], [ len |-> 5, hex |-> TRUE ],
      [ len |-> 7, hex |-> TRUE ], [ len |-> 6, hex |-> FALSE ] }
NoColors == [ i \in DOMAIN ColorKeys |-> ColorUnset ]

\* Values of MEMORY_WARNING_THRESHOLD / MEMORY_CRITICAL_THRESHOLD: a number,
\* or something parseInt makes NaN of (unset, empty, text).
MemUnset == [ nan |-> TRUE, n |-> 0 ]
MemValue(n) == [ nan |-> FALSE, n |-> n ]
MemValues == { MemUnset, MemValue(0), MemValue(80), MemValue(90) }

\* An environment that yields no entry at all: a 60-character token, an
\* 18-digit channel id and every other variable unset.
CleanEnv ==
    [ token |-> Token60, channelId |-> Id18, timezoneOk |-> TRUE,
      morning |-> Unset, evening |-> Unset, colors |-> NoColors,
      mentionEveryone |-> FALSE, schedulingDisabled |-> FALSE,
      production |-> FALSE, debugMode |-> FALSE,
      memWarning |-> MemUnset, memCritical |-> MemUnset ]

\* The environment a script validates repeatedly.  Every variable not named
\* here is unset, so that the application and logging steps (4 and 6) add
\* no entry.
ConfigEnvs ==
    { [ CleanEnv EXCEPT !.token = t, !.timezoneOk = z, !.mentionEveryone = m,
                        !.schedulingDisabled = s, !.production = p,
                        !.debugMode = d ] :
        t \in {Token60, Token10},     \* DISCORD_BOT_TOKEN
        z \in BOOLEAN,                \* TIMEZONE resolves
        m \in BOOLEAN,                \* MENTION_EVERYONE = 'true'
        s \in BOOLEAN,                \* ENABLE_SCHEDULING = 'false'
        p \in BOOLEAN,                \* NODE_ENV = 'production'
        d \in BOOLEAN }               \* DEBUG_MODE = 'true'

\* this.validationResults as the constructor creates it.
NewConfigResults ==
    [ passed |-> FALSE, errors |-> << >>, warnings |-> << >>,
      recommendations |-> << >> ]

addError(results, code) == [ results EXCEPT !.errors = Append(@, code) ]
addWarning(results, code) == [ results EXCEPT !.warnings = Append(@, code) ]
addRecommendation(results, code) ==
    [ results EXCEPT !.recommendations = Append(@, code) ]

\* The validator of DISCORD_BOT_TOKEN: its message, or "null".
tokenValidator(value) ==
    IF value.len = 0 THEN "Missing Discord bot token"
    ELSE IF value.len < 50 THEN "Token appears too short"
    ELSE IF ~value.charsOk THEN "Token contains invalid characters"
    ELSE "null"

\* Variant: any run of digits is taken for a channel id.
channelIdValidator_anyLength(value) ==
    IF value.len = 0 THEN "Missing Discord channel ID"
    ELSE IF ~value.digits THEN "Channel ID must be 17-19 digits"
    ELSE "null"

\* The validator of DSU_CHANNEL_ID.
channelIdValidator(value) ==
    IF value.len = 0 THEN "Missing Discord channel ID"
    ELSE IF ~(value.digits /\ value.len >= 17 /\ value.len <= 19)
         THEN "Channel ID must be 17-19 digits"
    ELSE "null"

validateRequiredVarsOn(results, e) ==
    LET r1 == IF tokenValidator(e.token) # "null"
              THEN addError(results, "INVALID_DISCORD_BOT_TOKEN")
              ELSE results
    IN  IF channelIdValidator(e.channelId) # "null"
        THEN addError(r1, "INVALID_DSU_CHANNEL_ID")
        ELSE r1

validateDiscordConfigOn(results, e) ==
    IF e.mentionEveryone THEN addWarning(results, "MENTION_EVERYONE_ENABLED")
    ELSE results

\* process.env.X || default, for a schedule.
scheduleOrDefault(configured, kind) ==
    IF configured = Unset THEN DefaultCron[kind] ELSE configured

validateSchedulingConfigOn(results, e) ==
    LET r1 == IF e.timezoneOk THEN results
              ELSE addError(results, "INVALID_TIMEZONE")
        r2 == IF ~cronValidate(scheduleOrDefault(e.morning, "morning"))
              THEN addError(r1, "INVALID_MORNING_SCHEDULE")
              ELSE r1
        r3 == IF ~cronValidate(scheduleOrDefault(e.evening, "evening"))
              THEN addError(r2, "INVALID_EVENING_SCHEDULE")
              ELSE r2
    IN  IF e.schedulingDisabled THEN addWarning(r3, "SCHEDULING_DISABLED")
        ELSE r3

\* color && !/^[0-9A-Fa-f]{6}$/.test(color)
colorInvalid(color) == color.len > 0 /\ ~(color.hex /\ color.len = 6)

\* The color loop from key i on; TEMPLATE_FORMAT and the greetings are
\* unset.
RECURSIVE validateColorsFrom(_, _, _)
validateColorsFrom(i, results, e) ==
    IF i > Len(ColorKeys) THEN results
    ELSE validateColorsFrom(i + 1,
            IF colorInvalid(e.colors[i])
            THEN addError(results, ColorErrors[i])
            ELSE results,
            e)

validateTemplateConfigOn(results, e) == validateColorsFrom(1, results, e)

\* parseInt(value) || default
parseIntOr(value, default) ==
    IF value.nan \/ value.n = 0 THEN default ELSE value.n

\* ENABLE_FILE_LOGGING is unset, which production reports as a warning.
validateProductionConfigOn(results, e) ==
    IF ~e.production THEN results
    ELSE LET r1 == IF e.debugMode
                   THEN addWarning(results, "DEBUG_MODE_IN_PRODUCTION")
                   ELSE results
             r2 == addWarning(r1, "NO_FILE_LOGGING_PRODUCTION")
             memWarning == parseIntOr(e.memWarning, 80)
             memCritical == parseIntOr(e.memCritical, 90)
             r3 == IF memCritical <= memWarning
                   THEN addError(r2, "INVALID_MEMORY_THRESHOLDS")
                   ELSE r2
         IN  addRecommendation(r3, "PRODUCTION_READY")

validateSecurityConfigOn(results, e) ==
    IF ~e.production THEN results
    ELSE addRecommendation(addRecommendation(results, "SECURITY_HEADERS"),
                           "HTTPS_ONLY")

\* Variant: a report with warnings does not pass.
assessValidationOn_warningsFail(results) ==
    [ results EXCEPT !.passed = ~(Len(results.errors) > 0)
                                /\ Len(results.warnings) = 0 ]

assessValidationOn(results) ==
    LET hasErrors == Len(results.errors) > 0
    IN  [ results EXCEPT !.passed = ~hasErrors ]

\* Step k of validateConfiguration.
configStep(k, results, e) ==
    CASE k = 1 -> validateRequiredVarsOn(results, e)
      [] k = 2 -> validateDiscordConfigOn(results, e)
      [] k = 3 -> validateSchedulingConfigOn(results, e)
      [] k = 5 -> validateTemplateConfigOn(results, e)
      [] k = 7 -> validateProductionConfigOn(results, e)
      [] k = 8 -> validateSecurityConfigOn(results, e)
      [] OTHER -> results

\* The steps an unexpected exception is raised in (0: in none).
ThrowPoints == {0, 1, 7}

\* Steps k..8 in order; a step listed as throwAt raises before it adds
\* anything.
RECURSIVE runConfigSteps(_, _, _, _)
runConfigSteps(k, results, e, throwAt) ==
    IF k > 8 THEN [ results |-> results, threw |-> FALSE ]
    ELSE IF k = throwAt THEN [ results |-> results, threw |-> TRUE ]
    ELSE runConfigSteps(k + 1, configStep(k, results, e), e, throwAt)

\* Variant: validateConfiguration without its try/catch.
validateConfigurationOn_noCatch(results, e, throwAt) ==
    LET out == runConfigSteps(1, results, e, throwAt)
    IN  IF out.threw
        THEN [ results |-> out.results, rejected |-> TRUE ]
        ELSE [ results |-> assessValidationOn(out.results),
               rejected |-> FALSE ]

\* validateConfiguration() on an instance whose validationResults is
\* results: the steps write into that object, which is also what the
\* returned promise resolves with.
validateConfigurationOn(results, e, throwAt) ==
    LET out == runConfigSteps(1, results, e, throwAt)
    IN  IF out.threw
        THEN [ results |-> [ addError(out.results, "VALIDATION_SYSTEM_ERROR")
                               EXCEPT !.passed = FALSE ],
               rejected |-> FALSE ]
        ELSE [ results |-> assessValidationOn(out.results),
               rejected |-> FALSE ]

\* No script is running this validator.
ParkedValidator ==
    [ active |-> FALSE, env |-> CleanEnv, objs |-> << >>, returned |-> << >> ]
ParkedChannelValidator ==
    [ active |-> FALSE, objs |-> << >>, returned |-> << >> ]

\* ------------------------------------------------------------------------
\* ChannelValidator as an object (utils/channel-validator.js)
\* ------------------------------------------------------------------------
\* What one validateChannel call meets: its argument and the gateway's
\* answers.  GoodWorld passes every step; each other world departs from it
\* in one place.
\* The permissions validateBotPermissions asks permissions.has about, in the
\* order of its two tables.
requiredPermissions ==
    << "ViewChannel", "SendMessages", "EmbedLinks", "ReadMessageHistory" >>
optionalPermissions ==
    << "ManageMessages", "AddReactions", "UseExternalEmojis" >>
NamesOf(s) == { s[i] : i \in DOMAIN s }
AllPermissions == NamesOf(requiredPermissions) \cup NamesOf(optionalPermissions)

\* What channel.permissionsFor(client.user) answers: null, or a bitfield
\* given here as the set of names it has.
PermsAll == [ isNull |-> FALSE, has |-> AllPermissions ]
PermsNoOptional == [ isNull |-> FALSE, has |-> NamesOf(requiredPermissions) ]
PermsMissingRequired ==
    [ isNull |-> FALSE, has |-> AllPermissions \ {"SendMessages", "EmbedLinks"} ]
PermsNull == [ isNull |-> TRUE, has |-> {} ]
PermissionAnswers ==
    {PermsNull} \cup { [ isNull |-> FALSE, has |-> h ] : h \in SUBSET AllPermissions }

GoodWorld ==
    [ channelId |-> "valid",    \* "empty" | "malformed" | "valid"
      fetch |-> "channel",      \* channels.fetch: "channel" | "nothing" |
                                \*   "err10003" | "err50001" | "errOther"
      chType |-> 0,
      guild |-> TRUE,           \* channel.guild is set
      clientUser |-> TRUE,      \* client.user is set
      member |-> "member",      \* guild.members.fetch: | "nothing" | "error"
      perms |-> PermsAll,       \* channel.permissionsFor(client.user)
      send |-> "ok",            \* | "noId" | "err50013" | "err50035" | "errOther"
      embed |-> "ok" ]          \* | "noEmbeds" | "err50013" | "errOther"

Worlds ==
    {GoodWorld}
    \cup { [ GoodWorld EXCEPT !.channelId = c ] : c \in {"empty", "malformed"} }
    \cup { [ GoodWorld EXCEPT !.fetch = f ] :
             f \in {"nothing", "err10003", "err50001", "errOther"} }
    \cup { [ GoodWorld EXCEPT !.chType = 2 ],
           [ GoodWorld EXCEPT !.guild = FALSE ],
           [ GoodWorld EXCEPT !.clientUser = FALSE ] }
    \cup { [ GoodWorld EXCEPT !.member = m ] : m \in {"nothing", "error"} }
    \cup { [ GoodWorld EXCEPT !.perms = p ] :
             p \in {PermsNoOptional, PermsMissingRequired, PermsNull} }
    \cup { [ GoodWorld EXCEPT !.send = s ] :
             s \in {"noId", "err50013", "err50035", "errOther"} }
    \cup { [ GoodWorld EXCEPT !.embed = s ] :
             s \in {"noEmbeds", "err50013", "errOther"} }

\* this.validationResults as the constructor creates it.
NewChannelResults ==
    [ channelId |-> "null", channel |-> "null", guild |-> "null",
      permissions |-> [ p \in {} |-> FALSE ],
      errors |-> << >>, warnings |-> << >>, passed |-> FALSE ]

\* A step's outcome: the results object, whether the step threw, and what
\* the run has done so far: the steps entered, the channels.fetch calls,
\* the guild.members.fetch calls and the channel.send calls.
Raise(out, code) ==
    [ out EXCEPT !.results = addError(@, code), !.threw = TRUE ]

validateChannelId(out, w) ==
    CASE w.channelId = "empty" -> Raise(out, "MISSING_CHANNEL_ID")
      [] w.channelId = "malformed" -> Raise(out, "INVALID_CHANNEL_ID_FORMAT")
      [] OTHER -> out

fetchAndValidateChannel(out, w) ==
    LET called == [ out EXCEPT !.fetchCalls = @ + 1 ]
    IN  CASE w.fetch = "channel" ->
               [ called EXCEPT !.results.channel = "fetched" ]
          [] w.fetch = "nothing" ->   \* thrown inside the try, caught below it
               Raise([ called EXCEPT
                         !.results = addError([ @ EXCEPT !.channel = "null" ],
                                              "CHANNEL_NOT_FOUND") ],
                     "FETCH_ERROR")
          [] w.fetch = "err10003" -> Raise(called, "UNKNOWN_CHANNEL")
          [] w.fetch = "err50001" -> Raise(called, "MISSING_ACCESS")
          [] OTHER -> Raise(called, "FETCH_ERROR")

\* Variant: every channel type is accepted.
validateChannelType_anyType(out, w) == out

validateChannelType(out, w) ==
    IF w.chType \notin {0, 5} THEN Raise(out, "INVALID_CHANNEL_TYPE") ELSE out

validateGuildAccess(out, w) ==
    IF ~w.guild THEN Raise(out, "NO_GUILD")
    ELSE LET o1 == [ out EXCEPT !.results.guild = "guild" ]
             called == [ o1 EXCEPT !.memberFetches = @ + 1 ]
         IN  CASE ~w.clientUser -> Raise(o1, "GUILD_ACCESS_ERROR")
               [] w.member = "nothing" ->
                    Raise([ called EXCEPT !.results =
                                             addError(@, "BOT_NOT_MEMBER") ],
                          "GUILD_ACCESS_ERROR")
               [] w.member = "error" -> Raise(called, "GUILD_ACCESS_ERROR")
               [] OTHER -> called

\* The entries this.validationResults.permissions gets: perm -> granted.
\* An entry already there is overwritten.
recordPermissions(permissions, names, has) ==
    [ p \in DOMAIN permissions \cup NamesOf(names) |->
        IF p \in NamesOf(names) THEN p \in has ELSE permissions[p] ]

RECURSIVE warnMissing(_, _, _)
warnMissing(results, names, has) ==
    IF names = << >> THEN results
    ELSE warnMissing(IF Head(names) \in has THEN results
                     ELSE addWarning(results, "MISSING_OPTIONAL_PERMISSION"),
                     Tail(names), has)

\* Variant: the first missing required permission is raised at once, before
\* the optional permissions are looked at.
validateBotPermissions_shortCircuit(out, w) ==
    IF w.perms.isNull THEN Raise(out, "PERMISSIONS_CHECK_FAILED")
    ELSE LET has == w.perms.has
             missingRequired ==
                SelectSeq(requiredPermissions, LAMBDA p : p \notin has)
         IN  IF Len(missingRequired) > 0
             THEN Raise([ out EXCEPT
                            !.results.permissions =
                               recordPermissions(@, << Head(missingRequired) >>,
                                                 has),
                            !.missingRequired = << Head(missingRequired) >> ],
                        "MISSING_REQUIRED_PERMISSIONS")
             ELSE [ out EXCEPT
                      !.results =
                         warnMissing(
                            [ @ EXCEPT !.permissions =
                                 recordPermissions(@, requiredPermissions
                                                      \o optionalPermissions,
                                                   has) ],
                            optionalPermissions, has) ]

\* out.missingRequired is the list the aggregate error's message names.
validateBotPermissions(out, w) ==
    IF w.perms.isNull THEN Raise(out, "PERMISSIONS_CHECK_FAILED")
    ELSE LET has == w.perms.has
             missingRequired ==
                SelectSeq(requiredPermissions, LAMBDA p : p \notin has)
             inspected ==
                [ out EXCEPT
                    !.results =
                       warnMissing(
                          [ @ EXCEPT !.permissions =
                               recordPermissions(@, requiredPermissions
                                                    \o optionalPermissions,
                                                 has) ],
                          optionalPermissions, has),
                    !.missingRequired = missingRequired ]
         IN  IF Len(missingRequired) > 0
             THEN Raise(inspected, "MISSING_REQUIRED_PERMISSIONS")
             ELSE inspected

testMessageSending(out, w) ==
    LET called == [ out EXCEPT !.sends = @ + 1 ]
    IN  CASE w.send = "ok" -> called
          [] w.send = "noId" ->
               Raise([ called EXCEPT !.results =
                                        addError(@, "MESSAGE_SEND_FAILED") ],
                     "MESSAGE_SEND_ERROR")
          [] w.send = "err50013" -> Raise(called, "INSUFFICIENT_PERMISSIONS")
          [] w.send = "err50035" -> Raise(called, "INVALID_MESSAGE")
          [] OTHER -> Raise(called, "MESSAGE_SEND_ERROR")

validateEmbedSupport(out, w) ==
    LET called == [ out EXCEPT !.sends = @ + 1 ]
    IN  CASE w.embed = "ok" -> called
          [] w.embed = "noEmbeds" ->
               Raise([ called EXCEPT !.results =
                                        addError(@, "EMBED_SEND_FAILED") ],
                     "EMBED_TEST_FAILED")
          [] w.embed = "err50013" -> Raise(called, "EMBED_PERMISSION_DENIED")
          [] OTHER -> Raise(called, "EMBED_TEST_FAILED")

assessValidationResults(results) ==
    LET hasErrors == Len(results.errors) > 0
    IN  [ results EXCEPT !.passed = ~hasErrors ]

\* Step k of validateChannel, entered.
enterStep(k, out, w) ==
    LET o == [ out EXCEPT !.steps = Append(@, k) ]
    IN  CASE k = 1 -> validateChannelId(o, w)
          [] k = 2 -> fetchAndValidateChannel(o, w)
          [] k = 3 -> validateChannelType(o, w)
          [] k = 4 -> validateGuildAccess(o, w)
          [] k = 5 -> validateBotPermissions(o, w)
          [] k = 6 -> testMessageSending(o, w)
          [] OTHER -> validateEmbedSupport(o, w)

\* Variant: each step in a try of its own, so that the later steps still
\* run after a failure.
channelStep_continueAfterThrow(k, out, w) == enterStep(k, out, w)

\* Step k of validateChannel; a step is skipped once an earlier one threw.
channelStep(k, out, w) ==
    IF out.threw THEN out ELSE enterStep(k, out, w)

RECURSIVE runChannelSteps(_, _, _)
runChannelSteps(k, out, w) ==
    IF k > 7 THEN out ELSE runChannelSteps(k + 1, channelStep(k, out, w), w)

\* validateChannel(channelId) on an instance whose validationResults is
\* results, with every awaited gateway call answered as w says.
validateChannelOn(results, w) ==
    LET start == [ results |-> [ results EXCEPT !.channelId = w.channelId ],
                   threw |-> FALSE, steps |-> << >>, fetchCalls |-> 0,
                   memberFetches |-> 0, sends |-> 0,
                   missingRequired |-> << >> ]
        out == runChannelSteps(1, start, w)
    IN  IF out.threw
        THEN [ results |-> [ addError(out.results, "VALIDATION_FAILED")
                               EXCEPT !.passed = FALSE ],
               fetchCalls |-> out.fetchCalls, steps |-> out.steps,
               memberFetches |-> out.memberFetches, sends |-> out.sends,
               missingRequired |-> out.missingRequired, rejected |-> FALSE ]
        ELSE [ results |-> assessValidationResults(out.results),
               fetchCalls |-> out.fetchCalls, steps |-> out.steps,
               memberFetches |-> out.memberFetches, sends |-> out.sends,
               missingRequired |-> out.missingRequired, rejected |-> FALSE ]

\* ------------------------------------------------------------------------
\* DSUScheduler life cycle (schedulers/dsu-scheduler.js)
\* ------------------------------------------------------------------------
\* The constructor: process.env.X || default.
constructorCron(configured) ==
    [ k \in Kinds |->
        IF configured[k] = Unset THEN DefaultCron[k] ELSE configured[k] ]

validateCronExpressions(crons) ==
    LET morningValid == cronValidate(crons["morning"])
        eveningValid == cronValidate(crons["evening"])
    IN  morningValid /\ eveningValid

\* Variant: only an expression that is itself invalid is replaced.
startCronExpressions_perExpression(crons) ==
    [ k \in Kinds |->
        IF cronValidate(crons[k]) THEN crons[k] ELSE DefaultCron[k] ]

\* Variant: start() registers the expressions as configured.
startCronExpressions_noFallback(crons) == crons

\* The head of start(): both expressions are replaced when the pair does
\* not validate.
startCronExpressions(crons) ==
    IF ~validateCronExpressions(crons) THEN DefaultCron ELSE crons

\* Variant: only the morning job is stopped.
stop_morningOnly(jobs) ==
    [ jobs |-> [ k \in Kinds |->
                   IF jobs[k] # "null" /\ k = "morning" THEN "stopped"
                   ELSE jobs[k] ],
      threw |-> FALSE ]

\* stop(): job.stop() on each job that has been created; a job that is
\* still null is skipped, so nothing is dereferenced that could throw.
stop(jobs) ==
    [ jobs |-> [ k \in Kinds |->
                   IF jobs[k] # "null" THEN "stopped" ELSE jobs[k] ],
      threw |-> FALSE ]

\* No script or process is driving the scheduler.
ParkedScheduler ==
    [ active |-> FALSE,
      configured |-> [ k \in Kinds |-> Unset ],
      cron |-> DefaultCron,                    \* morningCron / eveningCron
      job |-> [ k \in Kinds |-> "null" ],      \* morningJob / eveningJob
      registered |-> [ k \in Kinds |-> Unset ],\* given to cron.schedule
      started |-> "no",                        \* "no" | "returned" | "threw"
      stops |-> 0,                             \* stop() calls so far
      stopThrew |-> FALSE,
      stoppedAfterStart |-> FALSE,
      ticks |-> 0,                             \* callbacks invoked so far
      ranAfterStop |-> FALSE,
      restarts |-> 0,                          \* start() calls after the first
      orphans |-> [ k \in Kinds |-> 0 ] ]      \* running jobs no field holds

\* ------------------------------------------------------------------------
\* Shutdown and fatal exits (index.js)
\* ------------------------------------------------------------------------
\* No signal has arrived: the timer is not set and no step was taken.
NoShutdown ==
    [ phase |-> "none",      \* "none" | "closing" | "exited"
      timer |-> "unset",     \* forceExitTimeout: | "armed" | "cleared" | "fired"
      log |-> << >> ]        \* the steps taken, in order

\* No function has been called on its own.
NoProbe == [ fn |-> "none" ]

\* Variant: the HTTP server is closed before the scheduler is stopped.
gracefulShutdownBegin_closeBeforeStop(jobs) ==
    LET stopped == stop(jobs)
    IN  [ shutdown |-> [ phase |-> "closing", timer |-> "armed",
                         log |-> << "close", "stop" >> ],
          jobs |-> stopped.jobs, threw |-> stopped.threw ]

\* gracefulShutdown(signal) up to the wait for the close callback: the
\* timer is set, and the first two links of the promise chain run as
\* microtasks: dsuScheduler.stop(), then httpServer.close(callback).
gracefulShutdownBegin(jobs) ==
    LET stopped == stop(jobs)
    IN  [ shutdown |-> [ phase |-> "closing", timer |-> "armed",
                         log |-> << "stop", "close" >> ],
          jobs |-> stopped.jobs, threw |-> stopped.threw ]

\* The .catch() of the chain: clearTimeout, process.exit(1).
shutdownCatch(sd) ==
    [ shutdown |-> [ sd EXCEPT !.phase = "exited", !.timer = "cleared",
                               !.log = Append(@, "exit1") ],
      code |-> 1 ]

\* Variant: process.exit(0) without clearTimeout.
afterHttpClose_timerKept(sd, destroyOk) ==
    LET sd1 == [ sd EXCEPT !.log = @ \o << "closed", "destroy" >> ]
    IN  IF destroyOk
        THEN [ shutdown |-> [ sd1 EXCEPT !.phase = "exited",
                                         !.log = Append(@, "exit0") ],
               code |-> 0 ]
        ELSE shutdownCatch(sd1)

\* The close callback resolves the promise; the last two links run as
\* microtasks: client.destroy(), then clearTimeout and process.exit(0).  An
\* exception from client.destroy() lands in the .catch().
afterHttpClose(sd, destroyOk) ==
    LET sd1 == [ sd EXCEPT !.log = @ \o << "closed", "destroy" >> ]
    IN  IF destroyOk
        THEN [ shutdown |-> [ sd1 EXCEPT !.phase = "exited",
                                         !.timer = "cleared",
                                         !.log = Append(@, "exit0") ],
               code |-> 0 ]
        ELSE shutdownCatch(sd1)

\* Variant: the timer callback exits with code 0.
forceExit_codeZero(sd) ==
    [ shutdown |-> [ sd EXCEPT !.phase = "exited", !.timer = "fired",
                               !.log = Append(@, "exit1") ],
      code |-> 0 ]

\* The callback of forceExitTimeout, 10 s after the signal.
forceExit(sd) ==
    [ shutdown |-> [ sd EXCEPT !.phase = "exited", !.timer = "fired",
                               !.log = Append(@, "exit1") ],
      code |-> 1 ]

\* The 'uncaughtException' handler: stop(), client.destroy() inside a
\* try/catch, then process.exit(1).
uncaughtException(jobs) == [ jobs |-> stop(jobs).jobs, code |-> 1 ]

\* ------------------------------------------------------------------------
\* Initial states
\* ------------------------------------------------------------------------
\* Either the bot process (node src/index.js) right after its module body
\* ran, or a test script that drives a ThreadManager of its own.
Init ==
    /\ env \in Envs
    /\ proc \in {"boot", "harness"}
    /\ proc = "harness" =>
          /\ env.token = "ok" /\ env.channelId = "ok"
          /\ env.timezoneOk
    /\ exitCode = -1
    /\ configReport = NoReport
    /\ loginAttempted = FALSE
    /\ channelCheck = "none"
    /\ startCalled = FALSE
    /\ job = [ k \in Kinds |-> "null" ]
    /\ http = "pending"
    /\ health = [ served |-> FALSE, morning_running |-> FALSE,
                  evening_running |-> FALSE ]
    /\ today \in Days
    /\ proc = "harness" => today = 3
    /\ fire = [ k \in Kinds |-> IdleFire(k) ]
    /\ eventCount = 0
    /\ manual = IdleManual
    /\ tmEnabled = [ i \in Instances |-> env.autoThreads ]
    /\ tmCall = [ c \in Callers |-> NoCall ]
    /\ directCount = 0
    /\ cv = ParkedValidator
    /\ chv = ParkedChannelValidator
    /\ sched = ParkedScheduler
    /\ shutdown = NoShutdown
    /\ probe = NoProbe

\* ------------------------------------------------------------------------
\* Process start-up (index.js)
\* ------------------------------------------------------------------------
Exit(code) == proc' = "exited" /\ exitCode' = code

\* Variant: the failure is logged but process.exit(1) is missing.
initializeBot_noExit(configResults) ==
    [ proc |-> "connecting", exitCode |-> -1, login |-> TRUE ]

\* initializeBot after the validation: process.exit(1) when it did not
\* pass, else connectToDiscord() calls client.login().
initializeBot(configResults) ==
    IF ~configResults.passed
    THEN [ proc |-> "exited", exitCode |-> 1, login |-> FALSE ]
    ELSE [ proc |-> "connecting", exitCode |-> -1, login |-> TRUE ]

InitializeBot ==
    /\ proc = "boot"
    /\ LET configResults == validateConfiguration(env)
           next == initializeBot(configResults)
       IN  /\ configReport' = configResults
           /\ proc' = next.proc
           /\ exitCode' = next.exitCode
           /\ loginAttempted' = next.login
    /\ UNCHANGED << unitVars, env, channelCheck, startCalled, job, http, health, today,
                    handlerVars, eventCount, tmVars >>

\* client.login() settles: rejected -> exit(1); resolved -> the client gets
\* ready and the 'ready' handler awaits validateChannelAccess(client).
LoginReturns(ok) ==
    /\ proc = "connecting"
    /\ http = "listening"
    /\ IF ok
       THEN /\ proc' = "validatingChannel"
            /\ channelCheck' = "running"
            /\ UNCHANGED exitCode
       ELSE Exit(1) /\ UNCHANGED channelCheck
    /\ UNCHANGED << unitVars, env, configReport, loginAttempted, startCalled, job, http,
                    health, today, handlerVars, eventCount, tmVars >>

\* Variant: the catch block returns true.
validateChannelAccess_threwIsValid(outcome) == outcome # "failed"

\* Variant: the report's passed flag is not consulted.
validateChannelAccess_alwaysValid(outcome) == TRUE

\* validateChannelAccess: results.passed, or false when the validator threw.
validateChannelAccess(outcome) == outcome = "passed"

\* dsuScheduler.start(client): both cron.schedule calls register a running
\* job; node-cron may throw from either call.
schedulerStart(jobs, startOutcome) ==
    CASE startOutcome = "ok" ->
            [ k \in Kinds |-> "running" ]
      [] startOutcome = "throwMorning" -> jobs
      [] OTHER -> [ jobs EXCEPT !["morning"] = "running" ]

\* The rest of the 'ready' handler, once validateChannelAccess settled.
ChannelValidationReturns(outcome, startOutcome) ==
    /\ proc = "validatingChannel"
    /\ channelCheck = "running"
    /\ channelCheck' = outcome
    /\ LET isChannelValid == validateChannelAccess(outcome)
       IN  IF ~isChannelValid
           THEN /\ proc' = "serving"
                /\ UNCHANGED << exitCode, startCalled, job >>
           ELSE /\ startCalled' = TRUE
                /\ job' = schedulerStart(job, startOutcome)
                /\ IF startOutcome = "ok"
                   THEN proc' = "serving" /\ UNCHANGED exitCode
                   ELSE Exit(1)
    /\ UNCHANGED << unitVars, env, configReport, loginAttempted, http, health, today,
                    handlerVars, eventCount, tmVars >>

\* app.listen(): the 'listening' callback, or the 'error' event -> exit(1).
\* Both are local I/O events: they are delivered after initializeBot's
\* synchronous start and before the gateway answers the login.
HttpListenReturns(ok) ==
    /\ proc = "connecting"
    /\ http = "pending"
    /\ IF ok
       THEN http' = "listening" /\ UNCHANGED << proc, exitCode >>
       ELSE Exit(1) /\ UNCHANGED http
    /\ UNCHANGED << unitVars, env, configReport, loginAttempted, channelCheck,
                    startCalled, job, health, today, handlerVars, eventCount,
                    tmVars >>

\* GET /health: answers with the scheduler's running flags.
HealthRequest ==
    /\ proc \in {"connecting", "validatingChannel", "serving"}
    /\ http = "listening"
    /\ eventCount < MaxEvents
    /\ eventCount' = eventCount + 1
    /\ health' = [ served |-> TRUE,
                   morning_running |-> job["morning"] = "running",
                   evening_running |-> job["evening"] = "running" ]
    /\ UNCHANGED << unitVars, env, procVars, http, today, handlerVars, tmVars >>

\* Midnight in the configured timezone.
AdvanceDay ==
    /\ proc = "serving"
    /\ today' = (today + 1) % 7
    /\ UNCHANGED << unitVars, env, procVars, http, health, handlerVars, eventCount,
                    tmVars >>

\* ------------------------------------------------------------------------
\* Scheduled fires
\* ------------------------------------------------------------------------
\* node-cron invokes the callback of a running job.  The expression is the
\* configured one and may match any day of the week.
TriggerFire(k) ==
    /\ proc = "serving"
    /\ job[k] = "running"
    /\ fire[k].pc \in {"idle", "done"}
    /\ eventCount < MaxEvents
    /\ fire' = [ fire EXCEPT ![k] = cronCallback(k, today, env.channelId) ]
    /\ eventCount' = eventCount + 1
    /\ UNCHANGED << unitVars, env, procVars, http, health, today, manual, tmVars >>

\* client.channels.fetch(channelId) settles.
FetchReturns(k, answer) ==
    /\ proc = "serving"
    /\ fire[k].pc = "fetching"
    /\ fire' = [ fire EXCEPT ![k] = afterFetch(@, answer) ]
    /\ UNCHANGED << unitVars, env, procVars, http, health, today, eventCount, manual,
                    tmVars >>

\* channel.send(template) settles; on success message is the sent message.
SendReturns(k, ok, message) ==
    /\ proc = "serving"
    /\ fire[k].pc = "sending"
    /\ LET f1 == afterSend(fire[k], ok)
       IN  IF f1.pc = "threading"
           THEN LET call == createDSUThreadBegin("scheduler",
                                tmEnabled["scheduler"], message,
                                generateThreadTitle(k).len, k)
                IN  /\ tmCall' = [ tmCall EXCEPT ![k] = call ]
                    /\ fire' = [ fire EXCEPT ![k] =
                                   IF call.pc = "returned"
                                   THEN schedAfterThread(f1, call.result)
                                   ELSE f1 ]
           ELSE /\ fire' = [ fire EXCEPT ![k] = f1 ]
                /\ UNCHANGED tmCall
    /\ UNCHANGED << unitVars, env, procVars, http, health, today, eventCount, manual,
                    tmEnabled, directCount >>

\* ------------------------------------------------------------------------
\* Manual command events
\* ------------------------------------------------------------------------
\* A messageCreate event; the client delivers events once it is ready.
MessageCreate(authorBot, content, perms) ==
    /\ proc \in {"validatingChannel", "serving"}
    /\ manual.pc \in {"idle", "done"}
    /\ eventCount < MaxEvents
    /\ manual' = messageCreateBegin(authorBot, content, perms, today)
    /\ eventCount' = eventCount + 1
    /\ UNCHANGED << unitVars, env, procVars, http, health, today, fire, tmVars >>

\* The gateway call the handler awaits (channel.send or message.reply)
\* settles.
ManualGatewayReturns(ok, message) ==
    /\ proc \in {"validatingChannel", "serving"}
    /\ manual.pc \in {"sending", "sendingInfo", "replyPerm", "replyInvalid",
                      "replyErr"}
    /\ LET m1 == messageCreateResume(manual, ok)
       IN  IF m1.pc = "threading"
           THEN LET call == createDSUThreadBegin("index", tmEnabled["index"],
                                message,
                                generateThreadTitle(commandKind(m1.cmd)).len,
                                commandKind(m1.cmd))
                IN  /\ tmCall' = [ tmCall EXCEPT !["manual"] = call ]
                    /\ manual' = IF call.pc = "returned"
                                 THEN manualAfterThread(m1, call.result)
                                 ELSE m1
           ELSE /\ manual' = m1
                /\ UNCHANGED tmCall
    /\ UNCHANGED << unitVars, env, procVars, http, health, today, fire, eventCount,
                    tmEnabled, directCount >>

\* ------------------------------------------------------------------------
\* ThreadManager calls in flight
\* ------------------------------------------------------------------------
\* createDSUThread returned to caller c, or is suspended again.
Deliver(c, call) ==
    /\ tmCall' = [ tmCall EXCEPT ![c] = call ]
    /\ IF call.pc = "returned" /\ c \in Kinds
       THEN fire' = [ fire EXCEPT ![c] = schedAfterThread(@, call.result) ]
       ELSE UNCHANGED fire
    /\ IF call.pc = "returned" /\ c = "manual"
       THEN manual' = manualAfterThread(manual, call.result)
       ELSE UNCHANGED manual

\* message.startThread() settles.  The gateway rejects a name longer than
\* 100 characters with code 50035.
StartThreadReturns(c, answer) ==
    /\ proc \in {"validatingChannel", "serving", "harness"}
    /\ tmCall[c].pc = "startThread"
    /\ tmCall[c].titleLen > TitleLimit =>
          answer = [ what |-> "error", code |-> 50035 ]
    /\ Deliver(c, createDSUThreadAfterStart(tmCall[c], answer,
                                            env.initialThreadMessage))
    /\ UNCHANGED << unitVars, env, procVars, http, health, today, eventCount,
                    tmEnabled, directCount >>

\* thread.send(initial message) settles.
ThreadSendReturns(c, ok) ==
    /\ proc \in {"validatingChannel", "serving", "harness"}
    /\ tmCall[c].pc = "threadSend"
    /\ Deliver(c, createDSUThreadAfterSend(tmCall[c], ok))
    /\ UNCHANGED << unitVars, env, procVars, http, health, today, eventCount,
                    tmEnabled, directCount >>

\* A test script calls createDSUThread on its own ThreadManager.
DirectCreateDSUThread(message, titleLen, kind) ==
    /\ proc = "harness"
    /\ tmCall["direct"].pc \in {"none", "returned"}
    /\ directCount < MaxDirect
    /\ directCount' = directCount + 1
    /\ tmCall' = [ tmCall EXCEPT !["direct"] =
                     createDSUThreadBegin("harness", tmEnabled["harness"],
                                          message, titleLen, kind) ]
    /\ UNCHANGED << unitVars, env, procVars, http, health, today, handlerVars, eventCount,
                    tmEnabled >>

\* setThreadEnabled(enabled), called by the test scripts only.
SetThreadEnabled(enabled) ==
    /\ proc = "harness"
    /\ tmEnabled' = [ tmEnabled EXCEPT !["harness"] = enabled ]
    /\ UNCHANGED << unitVars, env, procVars, http, health, today, handlerVars, eventCount,
                    tmCall, directCount >>

\* ------------------------------------------------------------------------
\* Specification
\* ------------------------------------------------------------------------
Next ==
    \/ InitializeBot
    \/ \E ok \in BOOLEAN : LoginReturns(ok)
    \/ \E outcome \in {"passed", "failed", "threw"},
          startOutcome \in {"ok", "throwMorning", "throwEvening"} :
          ChannelValidationReturns(outcome, startOutcome)
    \/ \E ok \in BOOLEAN : HttpListenReturns(ok)
    \/ HealthRequest
    \/ AdvanceDay
    \/ \E k \in Kinds : TriggerFire(k)
    \/ \E k \in Kinds, answer \in {"channel", "nothing", "error"} :
          FetchReturns(k, answer)
    \/ \E k \in Kinds, message \in SentMessages :
          SendReturns(k, TRUE, message)
    \/ \E k \in Kinds : SendReturns(k, FALSE, NullMessage)
    \/ \E authorBot \in BOOLEAN, content \in Contents, perms \in ManualPerms :
          MessageCreate(authorBot, content, perms)
    \/ \E message \in SentMessages : ManualGatewayReturns(TRUE, message)
    \/ ManualGatewayReturns(FALSE, NullMessage)
    \/ \E c \in Callers, answer \in StartThreadAnswers :
          StartThreadReturns(c, answer)
    \/ \E c \in Callers, ok \in BOOLEAN : ThreadSendReturns(c, ok)
    \/ \E message \in Messages, titleLen \in TitleLens, kind \in Kinds :
          DirectCreateDSUThread(message, titleLen, kind)
    \/ \E enabled \in BOOLEAN : SetThreadEnabled(enabled)

Spec == Init /\ [][Next]_vars

\* ------------------------------------------------------------------------
\* Properties
\* ------------------------------------------------------------------------
Weekend == {0, 6}                      \* Sunday and Saturday
TriggerCommands == {"!dsu-morning", "!dsu-evening"}

\* C1: a cron callback that fires on a Saturday or Sunday ends at once with
\* no channel fetch, no send, no thread call and no error; its only log
\* entry is the skip notice.
C1_WeekendFireOnlySkips ==
    [][ \A k \in Kinds :
          (TriggerFire(k) /\ today \in Weekend) =>
             /\ fire'[k] = [ IdleFire(k) EXCEPT !.pc = "done",
                                               !.log = << "skip" >> ]
             /\ tmCall' = tmCall ]_vars

C1_Witness ==
    \E k \in Kinds :
       /\ today \in Weekend
       /\ fire[k].pc = "done"
       /\ fire[k].log = << "skip" >>
       /\ fire[k].fetchCalls = 0 /\ fire[k].sendCalls = 0

\* C2: when the send of a scheduled fire succeeds (which takes a weekday, a
\* configured channel id and a successful fetch), exactly one message, built
\* from the template of the trigger's kind, has been sent to the configured
\* channel, and the dispatch is logged as sent and not as an error, whatever
\* becomes of the thread.
C2_WeekdayFireSendsOnce ==
    [][ \A k \in Kinds :
          (\E message \in SentMessages : SendReturns(k, TRUE, message)) =>
             /\ fire'[k].sent
             /\ fire'[k].sendCalls = 1
             /\ fire'[k].fetchCalls = 1
             /\ fire'[k].template = k
             /\ fire'[k].channel = "configured"
             /\ Has(fire'[k].log, "sent")
             /\ ~Has(fire'[k].log, "sendError")
             /\ ~Has(fire'[k].log, "skip") ]_vars

C2_Witness ==
    \E k \in Kinds :
       /\ fire[k].pc = "done"
       /\ fire[k].sent
       /\ fire[k].template = k
       /\ fire[k].threadCalls = 0
       /\ ~Has(fire[k].log, "threadOk")

\* C3 (as claimed): after every successful scheduled send the ThreadManager
\* is called on the sent message, and never without a successful send.
C3_ThreadAttemptedAfterSend ==
    \A k \in Kinds :
       /\ (fire[k].pc = "done" /\ fire[k].sent) => fire[k].threadCalls = 1
       /\ fire[k].threadCalls > 0 => fire[k].sent

\* C4: a fire whose send succeeded and whose thread step produced no thread
\* ends normally with the send as it was: nothing is raised, the message
\* stays sent and logged as sent, the send is not logged as failed, and a
\* failure before the ThreadManager call is logged as a thread failure.
C4_ThreadFailureContained ==
    \A k \in Kinds :
       (fire[k].sent /\ fire[k].pc = "done" /\ ~Has(fire[k].log, "threadOk")) =>
          /\ ~fire[k].raised
          /\ fire[k].sendCalls = 1
          /\ Has(fire[k].log, "sent")
          /\ ~Has(fire[k].log, "sendError")
          /\ fire[k].threadCalls = 0 => Has(fire[k].log, "threadFailed")

C4_Witness ==
    \E k \in Kinds :
       /\ fire[k].pc = "done"
       /\ fire[k].sent
       /\ Has(fire[k].log, "threadFailed")
       /\ ~fire[k].raised

\* C5: one fire issues at most one send to the gateway; a send is issued
\* only from the answer of that fire's channel fetch, so a failed send is
\* not repeated and a successful one is not followed by another.
C5_AtMostOneSendPerFire ==
    [][ \A k \in Kinds :
          /\ fire'[k].sendCalls <= 1
          /\ fire'[k].sendCalls > fire[k].sendCalls =>
                fire[k].pc = "fetching" /\ fire[k].sendCalls = 0
          /\ (fire[k].pc = "sending" /\ fire'[k].pc # "sending") =>
                fire'[k].pc \in {"done", "threading"} ]_vars

C5_Witness ==
    \E k \in Kinds :
       /\ fire[k].pc = "done"
       /\ fire[k].sendCalls = 1
       /\ ~fire[k].sent
       /\ Has(fire[k].log, "sendError")

\* C6: once configuration validation has returned passed = false, the
\* process has exited with code 1 and has neither logged in, nor run the
\* channel validation, nor started the scheduler.
C6_ConfigHardGate ==
    (configReport.ran /\ ~configReport.passed) =>
       /\ proc = "exited"
       /\ exitCode = 1
       /\ ~loginAttempted
       /\ channelCheck = "none"
       /\ ~startCalled
       /\ \A k \in Kinds : job[k] = "null"

C6_Witness ==
    /\ configReport.ran
    /\ configReport.errors # {}
    /\ ~configReport.passed
    /\ exitCode = 1

FullPerms == [ isNull |-> FALSE, has |-> {"SendMessages", "EmbedLinks"} ]

\* C7: after the channel validation failed or threw, the process is alive,
\* start() was not called and no trigger exists, while a manual command and
\* a health request are still accepted.
C7_ChannelSoftGate ==
    channelCheck \in {"failed", "threw"} =>
       /\ proc = "serving"
       /\ exitCode = -1
       /\ ~startCalled
       /\ \A k \in Kinds : job[k] = "null" /\ fire[k].pc = "idle"
       /\ (manual.pc \in {"idle", "done"} /\ eventCount < MaxEvents) =>
             /\ ENABLED MessageCreate(FALSE, "!dsu-morning", FullPerms)
             /\ ENABLED HealthRequest

C7_Witness ==
    /\ channelCheck \in {"failed", "threw"}
    /\ manual.pc = "done"
    /\ manual.sent
    /\ health.served

\* C8: a trigger is registered only when configuration validation passed
\* and channel access validation passed before.
C8_TriggersOnlyAfterBothGates ==
    \A k \in Kinds :
       job[k] # "null" =>
          /\ configReport.ran /\ configReport.passed
          /\ channelCheck = "passed"
          /\ startCalled

C8_Witness ==
    /\ \A k \in Kinds : job[k] = "running"
    /\ proc = "serving"
    /\ channelCheck = "passed"

\* C9 (as claimed): a permitted manual trigger command, on any day of the
\* week, sends the DSU message to the invoking channel and then calls the
\* ThreadManager on it.
C9_ManualSendsThenThreads ==
    (manual.pc = "done" /\ manual.cmd \in TriggerCommands /\ manual.sent) =>
       /\ manual.sendCalls = 1
       /\ manual.channel = "invoking"
       /\ manual.threadCalls = 1

ThreadableMessage(m) ==
    /\ ~m.isNull /\ m.hasChannel
    /\ m.chType \in {0, 5}
    /\ m.perm = "granted"

\* C11: a createDSUThread call made while the toggle is off returns null at
\* once, for every message (null included), with no permission query, no
\* startThread and no thread send; setThreadEnabled(true) turns the toggle
\* on, and a call made with the toggle on and a threadable message issues
\* startThread.
C11_DisabledMakesNoGatewayCall ==
    [][ /\ \A message \in Messages, titleLen \in TitleLens, kind \in Kinds :
             DirectCreateDSUThread(message, titleLen, kind) =>
                IF ~tmEnabled["harness"]
                THEN /\ tmCall'["direct"].pc = "returned"
                     /\ tmCall'["direct"].result = "null"
                     /\ ~tmCall'["direct"].threw
                     /\ tmCall'["direct"].permQueries = 0
                     /\ tmCall'["direct"].startThreads = 0
                     /\ tmCall'["direct"].threadSends = 0
                ELSE ThreadableMessage(message) =>
                        /\ tmCall'["direct"].pc = "startThread"
                        /\ tmCall'["direct"].startThreads = 1
        /\ SetThreadEnabled(TRUE) => tmEnabled'["harness"] ]_vars

C11_Witness ==
    /\ tmCall["direct"].pc = "returned"
    /\ ~tmCall["direct"].wasEnabled
    /\ ThreadableMessage(tmCall["direct"].msg)
    /\ tmCall["direct"].result = "null"
    /\ tmCall["direct"].permQueries = 0
    /\ tmEnabled["harness"]

C13_InitialMessageBestEffort ==
    [][ \A c \in Callers :
          /\ ThreadSendReturns(c, FALSE) =>
                /\ tmCall'[c].pc = "returned"
                /\ tmCall'[c].result = "thread"
                /\ ~tmCall'[c].threw
          /\ (/\ StartThreadReturns(c, [ what |-> "thread", code |-> 0 ])
              /\ ~env.initialThreadMessage) =>
                /\ tmCall'[c].pc = "returned"
                /\ tmCall'[c].result = "thread"
                /\ tmCall'[c].threadSends = 0 ]_vars

C13_Witness ==
    /\ tmCall["direct"].pc = "returned"
    /\ tmCall["direct"].result = "thread"
    /\ tmCall["direct"].threadSends = 1
    /\ ~tmCall["direct"].initialSent

\* ------------------------------------------------------------------------
\* Validators driven by a script
\* ------------------------------------------------------------------------
\* The bot itself is not running while a script drives a unit.
BotParked ==
    /\ env = [ token |-> "ok", channelId |-> "ok", timezoneOk |-> TRUE,
               autoThreads |-> TRUE, initialThreadMessage |-> TRUE ]
    /\ proc = "parked"
    /\ exitCode = -1
    /\ configReport = NoReport
    /\ loginAttempted = FALSE
    /\ channelCheck = "none"
    /\ startCalled = FALSE
    /\ job = [ k \in Kinds |-> "null" ]
    /\ http = "pending"
    /\ health = [ served |-> FALSE, morning_running |-> FALSE,
                  evening_running |-> FALSE ]
    /\ today = 3
    /\ fire = [ k \in Kinds |-> IdleFire(k) ]
    /\ eventCount = 0
    /\ manual = IdleManual
    /\ tmEnabled = [ i \in Instances |-> TRUE ]
    /\ tmCall = [ c \in Callers |-> NoCall ]
    /\ directCount = 0

\* A script validates either the configuration, under one environment that
\* stays as it is, or channels.
ValidatorInit ==
    /\ BotParked
    /\ sched = ParkedScheduler
    /\ shutdown = NoShutdown
    /\ probe = NoProbe
    /\ \/ /\ cv \in { [ ParkedValidator EXCEPT !.active = TRUE, !.env = e ] :
                        e \in ConfigEnvs }
          /\ chv = ParkedChannelValidator
       \/ /\ cv = ParkedValidator
          /\ chv = [ ParkedChannelValidator EXCEPT !.active = TRUE ]

\* No earlier run used instance i.
FirstRun(returned, i) == \A n \in DOMAIN returned : returned[n].ref # i

\* new ConfigValidator()
NewConfigValidator ==
    /\ cv.active
    /\ Len(cv.objs) < MaxValidators
    /\ cv' = [ cv EXCEPT !.objs = Append(@, NewConfigResults) ]
    /\ UNCHANGED << botVars, chv, sched, shutdown, probe >>

\* await validator.validateConfiguration() on instance i.  The report the
\* caller receives is the instance's validationResults object (ref); its
\* content at that moment is kept next to it.
ValidateConfiguration(i, throwAt) ==
    /\ cv.active
    /\ i \in DOMAIN cv.objs
    /\ Len(cv.returned) < MaxRuns
    /\ LET out == validateConfigurationOn(cv.objs[i], cv.env, throwAt)
       IN  cv' = [ cv EXCEPT
                     !.objs[i] = out.results,
                     !.returned = Append(@,
                        [ ref |-> i, report |-> out.results,
                          rejected |-> out.rejected, throwAt |-> throwAt,
                          first |-> FirstRun(cv.returned, i) ]) ]
    /\ UNCHANGED << botVars, chv, sched, shutdown, probe >>

\* new ChannelValidator(client)
NewChannelValidator ==
    /\ chv.active
    /\ Len(chv.objs) < MaxValidators
    /\ chv' = [ chv EXCEPT !.objs = Append(@, NewChannelResults) ]
    /\ UNCHANGED << botVars, cv, sched, shutdown, probe >>

\* await validator.validateChannel(channelId) on instance i, in world w.
ValidateChannel(i, w) ==
    /\ chv.active
    /\ i \in DOMAIN chv.objs
    /\ Len(chv.returned) < MaxRuns
    /\ LET out == validateChannelOn(chv.objs[i], w)
       IN  chv' = [ chv EXCEPT
                      !.objs[i] = out.results,
                      !.returned = Append(@,
                         [ ref |-> i, report |-> out.results,
                           rejected |-> out.rejected, world |-> w,
                           fetchCalls |-> out.fetchCalls,
                           steps |-> out.steps,
                           memberFetches |-> out.memberFetches,
                           sends |-> out.sends,
                           first |-> FirstRun(chv.returned, i) ]) ]
    /\ UNCHANGED << botVars, cv, sched, shutdown, probe >>

ValidatorNext ==
    \/ NewConfigValidator
    \/ \E i \in 1..MaxValidators, throwAt \in ThrowPoints :
          ValidateConfiguration(i, throwAt)
    \/ NewChannelValidator
    \/ \E i \in 1..MaxValidators, w \in Worlds : ValidateChannel(i, w)

ValidatorSpec == ValidatorInit /\ [][ValidatorNext]_vars

\* ------------------------------------------------------------------------
\* The scheduler's life cycle
\* ------------------------------------------------------------------------
\* The module has been loaded: the constructor read the two expressions.
SchedulerInit ==
    /\ BotParked
    /\ cv = ParkedValidator
    /\ chv = ParkedChannelValidator
    /\ shutdown = NoShutdown
    /\ probe = NoProbe
    /\ sched \in { [ ParkedScheduler EXCEPT !.active = TRUE,
                                            !.configured = c,
                                            !.cron = constructorCron(c) ] :
                     c \in [ Kinds -> CronInputs ] }

\* dsuScheduler.start(client), called once by the 'ready' handler.  Each
\* cron.schedule call registers a running job or throws.
SchedulerStart(startOutcome) ==
    /\ sched.active
    /\ sched.started = "no"
    /\ LET crons == startCronExpressions(sched.cron)
           jobs == schedulerStart(sched.job, startOutcome)
       IN  sched' = [ sched EXCEPT
                        !.cron = crons,
                        !.job = jobs,
                        !.registered =
                           [ k \in Kinds |->
                               IF jobs[k] = "running" THEN crons[k]
                               ELSE Unset ],
                        !.started = IF startOutcome = "ok" THEN "returned"
                                    ELSE "threw" ]
    /\ UNCHANGED << botVars, cv, chv, shutdown, probe >>

\* dsuScheduler.stop(), called by gracefulShutdown on every SIGINT/SIGTERM
\* and by the uncaughtException handler, before or after start().
SchedulerStop ==
    /\ sched.active
    /\ sched.started # "threw"      \* the 'ready' handler has exited then
    /\ sched.stops < MaxStops
    /\ LET out == stop(sched.job)
       IN  sched' = [ sched EXCEPT
                        !.job = out.jobs,
                        !.stopThrew = out.threw,
                        !.stops = @ + 1,
                        !.stoppedAfterStart = @ \/ sched.started # "no" ]
    /\ UNCHANGED << botVars, cv, chv, shutdown, probe >>

\* node-cron reaches a time the expression of job k matches: it invokes the
\* callback of a job that is running, and of no other.
SchedulerTick(k) ==
    /\ sched.active
    /\ sched.started # "threw"
    /\ sched.job[k] = "running"
    /\ sched.ticks < MaxTicks
    /\ sched' = [ sched EXCEPT
                    !.ticks = @ + 1,
                    !.ranAfterStop = @ \/ sched.stoppedAfterStart ]
    /\ UNCHANGED << botVars, cv, chv, shutdown, probe >>

SchedulerNext ==
    \/ \E startOutcome \in {"ok", "throwMorning", "throwEvening"} :
          SchedulerStart(startOutcome)
    \/ SchedulerStop
    \/ \E k \in Kinds : SchedulerTick(k)

SchedulerSpec == SchedulerInit /\ [][SchedulerNext]_vars

\* ------------------------------------------------------------------------
\* Properties of the validators
\* ------------------------------------------------------------------------
\* No run on the instance of run n, up to run n, met an internal exception.
NoInternalError(n) ==
    \A m \in 1..n :
       cv.returned[m].ref = cv.returned[n].ref => cv.returned[m].throwAt = 0

\* C14: every report validateConfiguration returned has passed set exactly
\* when its errors list is empty, and (no internal exception being raised)
\* passed is decided by the token and the timezone alone, whatever warnings
\* and recommendations the mention, scheduling, production and debug
\* settings add.
C14_PassedIffNoErrors ==
    \A n \in DOMAIN cv.returned :
       LET r == cv.returned[n].report
       IN  /\ r.passed <=> Len(r.errors) = 0
           /\ NoInternalError(n) =>
                 (r.passed <=> (cv.env.token = Token60 /\ cv.env.timezoneOk))

C14_Witness ==
    \E n \in DOMAIN cv.returned :
       /\ cv.returned[n].report.passed
       /\ Len(cv.returned[n].report.warnings) >= 2
       /\ Len(cv.returned[n].report.recommendations) > 0
       /\ cv.env.debugMode /\ cv.env.mentionEveryone

\* C15 (as claimed): two validateConfiguration calls under the same
\* environment, neither meeting an internal exception, return equal reports.
C15_ValidationIdempotent ==
    \A m, n \in DOMAIN cv.returned :
       (cv.returned[m].throwAt = 0 /\ cv.returned[n].throwAt = 0) =>
          cv.returned[m].report = cv.returned[n].report

\* C16 (as claimed): the first validateChannel call on a validator reports
\* exactly the missing-id error, with no fetch, for an empty id; and exactly
\* one error, after exactly one fetch, for a well-formed id the gateway does
\* not know.
C16_ChannelShortCircuit ==
    \A n \in DOMAIN chv.returned :
       LET run == chv.returned[n]
       IN  run.first =>
              /\ run.world.channelId = "empty" =>
                    /\ run.report.errors = << "MISSING_CHANNEL_ID" >>
                    /\ run.fetchCalls = 0
              /\ (/\ run.world.channelId = "valid"
                  /\ run.world.fetch \in {"nothing", "err10003"}) =>
                    /\ Len(run.report.errors) = 1
                    /\ run.fetchCalls = 1

\* C17 (as claimed): the report a validation run returned stays as it was
\* returned, and holds what a run on a new validator would have produced.
C17_ReportsFreshAndFrozen ==
    /\ \A n \in DOMAIN chv.returned :
          LET run == chv.returned[n]
          IN  /\ chv.objs[run.ref] = run.report
              /\ run.report = validateChannelOn(NewChannelResults,
                                                run.world).results
    /\ \A n \in DOMAIN cv.returned :
          LET run == cv.returned[n]
          IN  /\ cv.objs[run.ref] = run.report
              /\ run.report = validateConfigurationOn(NewConfigResults,
                                 cv.env, run.throwAt).results

\* C18: every validateConfiguration and validateChannel call resolves with a
\* report; a run in which a step raised an unexpected exception (an
\* internal one, or client.user being unset) has passed = false and ends its
\* errors with the validation-system entry; and a configuration report has
\* that entry only if an exception was raised.
C18_ValidatorsAlwaysResolve ==
    /\ \A n \in DOMAIN cv.returned :
          LET run == cv.returned[n]
              errors == run.report.errors
          IN  /\ ~run.rejected
              /\ run.throwAt # 0 =>
                    /\ ~run.report.passed
                    /\ Len(errors) > 0
                    /\ errors[Len(errors)] = "VALIDATION_SYSTEM_ERROR"
              /\ NoInternalError(n) =>
                    \A j \in DOMAIN errors :
                       errors[j] # "VALIDATION_SYSTEM_ERROR"
    /\ \A n \in DOMAIN chv.returned :
          LET run == chv.returned[n]
              errors == run.report.errors
          IN  /\ ~run.rejected
              /\ run.world # GoodWorld /\ run.world.perms # PermsNoOptional =>
                    ~run.report.passed
              /\ ~run.world.clientUser =>
                    /\ Len(errors) > 0
                    /\ errors[Len(errors)] = "VALIDATION_FAILED"

C18_Witness ==
    \E n \in DOMAIN cv.returned :
       /\ cv.returned[n].throwAt = 7
       /\ cv.returned[n].first
       /\ cv.env.token = Token10
       /\ cv.returned[n].report.errors =
             << "INVALID_DISCORD_BOT_TOKEN", "VALIDATION_SYSTEM_ERROR" >>
       /\ ~cv.returned[n].report.passed

\* ------------------------------------------------------------------------
\* Properties of the scheduler's life cycle
\* ------------------------------------------------------------------------
ValidCrons ==
    { DefaultCron["morning"], DefaultCron["evening"], CustomCron, SecondsCron }
InvalidCrons == { Hour25Cron, FourFieldCron, TextCron }

\* C19: once start() has returned, each job is registered with a valid
\* expression: the configured pair (an unset one being its default) when
\* both are valid, and the default in place of every invalid one.
C19_RegisteredCronsValid ==
    sched.started = "returned" =>
       /\ \A k \in Kinds : sched.registered[k] \in ValidCrons
       /\ \A k \in Kinds :
             sched.configured[k] \in InvalidCrons =>
                sched.registered[k] = DefaultCron[k]
       /\ (\A k \in Kinds : sched.configured[k] \notin InvalidCrons) =>
             \A k \in Kinds :
                sched.registered[k] =
                   IF sched.configured[k] = Unset THEN DefaultCron[k]
                   ELSE sched.configured[k]

C19_Witness ==
    /\ sched.started = "returned"
    /\ sched.configured["morning"] = CustomCron
    /\ sched.configured["evening"] = Hour25Cron
    /\ sched.registered["evening"] = DefaultCron["evening"]
    /\ sched.job["evening"] = "running"

\* C20: stop() never throws and leaves no job running, whether start() was
\* never called, has returned, or stop() ran before; a job that was running
\* is stopped, a repeated stop() changes nothing, and after a stop() that
\* followed start() no job callback is invoked.
C20_StopIdempotentAndSafe ==
    [][ /\ SchedulerStop =>
             /\ ~sched'.stopThrew
             /\ \A k \in Kinds :
                   /\ sched'.job[k] # "running"
                   /\ sched.job[k] = "running" => sched'.job[k] = "stopped"
                   /\ sched.job[k] # "running" => sched'.job[k] = sched.job[k]
        /\ ~sched'.ranAfterStop
        /\ sched.stoppedAfterStart =>
              \A k \in Kinds : ~ENABLED SchedulerTick(k) ]_vars

C20_Witness ==
    /\ sched.started = "returned"
    /\ sched.stops = 2
    /\ sched.ticks > 0
    /\ \A k \in Kinds : sched.job[k] = "stopped"

\* ------------------------------------------------------------------------
\* The bot process from start to exit
\* ------------------------------------------------------------------------
\* Environments of the process: as Envs, with ENABLE_SCHEDULING, and with
\* the settings the thread code reads left at their defaults.
ProcessEnvs ==
    [ token : {"ok", "short"},
      channelId : {"ok"},
      timezoneOk : {TRUE},
      autoThreads : {TRUE},
      initialThreadMessage : {TRUE},
      enableScheduling : BOOLEAN ]     \* ENABLE_SCHEDULING !== 'false'

\* node src/index.js right after its module body ran, on a Wednesday.
ProcessInit ==
    /\ env \in ProcessEnvs
    /\ proc = "boot"
    /\ exitCode = -1
    /\ configReport = NoReport
    /\ loginAttempted = FALSE
    /\ channelCheck = "none"
    /\ startCalled = FALSE
    /\ job = [ k \in Kinds |-> "null" ]
    /\ http = "pending"
    /\ health = [ served |-> FALSE, morning_running |-> FALSE,
                  evening_running |-> FALSE ]
    /\ today = 3
    /\ fire = [ k \in Kinds |-> IdleFire(k) ]
    /\ eventCount = 0
    /\ manual = IdleManual
    /\ tmEnabled = [ i \in Instances |-> env.autoThreads ]
    /\ tmCall = [ c \in Callers |-> NoCall ]
    /\ directCount = 0
    /\ cv = ParkedValidator
    /\ chv = ParkedChannelValidator
    /\ sched = ParkedScheduler
    /\ shutdown = NoShutdown
    /\ probe = NoProbe

\* The process is running its event loop.
Alive == proc \in {"connecting", "validatingChannel", "serving"}

\* SIGINT or SIGTERM is delivered.  The handler and the microtasks it
\* queues run to the point where the chain waits for the close callback.
Signal ==
    /\ Alive
    /\ http = "listening"
    /\ shutdown.phase = "none"
    /\ LET out == gracefulShutdownBegin(job)
       IN  /\ job' = out.jobs
           /\ IF out.threw
              THEN /\ shutdown' = shutdownCatch(out.shutdown).shutdown
                   /\ Exit(1)
              ELSE /\ shutdown' = out.shutdown
                   /\ UNCHANGED << proc, exitCode >>
    /\ UNCHANGED << env, configReport, loginAttempted, channelCheck,
                    startCalled, http, health, today, handlerVars, eventCount,
                    tmVars, cv, chv, sched, probe >>

\* The callback of httpServer.close() runs (once every connection has
\* ended); client.destroy() returns or throws.
HttpCloseReturns(destroyOk) ==
    /\ Alive
    /\ shutdown.phase = "closing"
    /\ LET out == afterHttpClose(shutdown, destroyOk)
       IN  /\ shutdown' = out.shutdown
           /\ Exit(out.code)
    /\ http' = "closed"
    /\ UNCHANGED << env, configReport, loginAttempted, channelCheck,
                    startCalled, job, health, today, handlerVars, eventCount,
                    tmVars, cv, chv, sched, probe >>

\* The force-exit timer expires while the chain is still waiting.
ForceExit ==
    /\ Alive
    /\ shutdown.phase = "closing"
    /\ shutdown.timer = "armed"
    /\ LET out == forceExit(shutdown)
       IN  /\ shutdown' = out.shutdown
           /\ Exit(out.code)
    /\ UNCHANGED << env, configReport, loginAttempted, channelCheck,
                    startCalled, job, http, health, today, handlerVars,
                    eventCount, tmVars, cv, chv, sched, probe >>

\* An exception escapes an event callback.
UncaughtException ==
    /\ Alive
    /\ LET out == uncaughtException(job)
       IN  /\ job' = out.jobs
           /\ Exit(out.code)
    /\ UNCHANGED << env, configReport, loginAttempted, channelCheck,
                    startCalled, http, health, today, handlerVars, eventCount,
                    tmVars, unitVars >>

ProcessNext ==
    \/ InitializeBot
    \/ \E ok \in BOOLEAN : LoginReturns(ok)
    \/ \E outcome \in {"passed", "failed", "threw"},
          startOutcome \in {"ok", "throwMorning", "throwEvening"} :
          ChannelValidationReturns(outcome, startOutcome)
    \/ \E ok \in BOOLEAN : HttpListenReturns(ok)
    \/ \E k \in Kinds : TriggerFire(k)
    \/ \E k \in Kinds, answer \in {"channel", "nothing", "error"} :
          FetchReturns(k, answer)
    \/ \E k \in Kinds, message \in SentMessages :
          SendReturns(k, TRUE, message)
    \/ \E k \in Kinds : SendReturns(k, FALSE, NullMessage)
    \/ Signal
    \/ \E destroyOk \in BOOLEAN : HttpCloseReturns(destroyOk)
    \/ ForceExit
    \/ UncaughtException

ProcessSpec == ProcessInit /\ [][ProcessNext]_vars

\* The timer set by gracefulShutdown fires unless it is cleared or the
\* process exits first: the event loop runs an expired timer.
ProcessLiveSpec == ProcessSpec /\ WF_vars(ForceExit)

\* ------------------------------------------------------------------------
\* Properties of shutdown and exit
\* ------------------------------------------------------------------------
Orderly == << "stop", "close", "closed", "destroy", "exit0" >>

IsPrefix(s, t) ==
    /\ Len(s) <= Len(t)
    /\ \A i \in DOMAIN s : s[i] = t[i]

C22_NoFireDuringTeardown ==
    [][ shutdown.phase # "none" =>
           \A k \in Kinds :
              /\ ~TriggerFire(k)
              /\ fire'[k].fetchCalls = fire[k].fetchCalls
              /\ fire'[k].sendCalls = fire[k].sendCalls
              /\ fire'[k].threadCalls = fire[k].threadCalls ]_vars

\* C23: once a signal has started the shutdown the process exits, by the
\* force-exit timer if the close callback does not come; and an exit with
\* code 0 has cleared the timer.
C23_ShutdownTerminates ==
    /\ (shutdown.phase = "closing") ~> (proc = "exited")
    /\ [](exitCode = 0 => shutdown.timer = "cleared")

C23_Witness ==
    /\ proc = "exited"
    /\ shutdown.timer = "fired"
    /\ shutdown.log = << "stop", "close", "exit1" >>

\* C24: the process exits with 0 only at the end of a complete orderly
\* shutdown, and with 1 on a failed configuration validation, a rejected
\* login, start() throwing, a failed listen, an uncaught exception, an
\* error during shutdown, and the expiry of the grace period.
C24_ExitCodes ==
    [][ /\ exitCode' = 0 => (proc' = "exited" /\ shutdown'.log = Orderly)
        /\ proc' = "exited" => exitCode' \in {0, 1}
        /\ (InitializeBot /\ env.token # "ok") =>
              (proc' = "exited" /\ exitCode' = 1)
        /\ LoginReturns(FALSE) => (proc' = "exited" /\ exitCode' = 1)
        /\ (\E startOutcome \in {"throwMorning", "throwEvening"} :
               ChannelValidationReturns("passed", startOutcome)) =>
              (proc' = "exited" /\ exitCode' = 1)
        /\ HttpListenReturns(FALSE) => (proc' = "exited" /\ exitCode' = 1)
        /\ UncaughtException => (proc' = "exited" /\ exitCode' = 1)
        /\ HttpCloseReturns(FALSE) => (proc' = "exited" /\ exitCode' = 1)
        /\ ForceExit => (proc' = "exited" /\ exitCode' = 1) ]_vars

C24_Witness ==
    /\ proc = "exited"
    /\ exitCode = 1
    /\ shutdown.log = << "stop", "close", "closed", "destroy", "exit1" >>

\* C29 (as claimed): with ENABLE_SCHEDULING set to 'false' no job is
\* registered and no scheduled message is sent.
C29_SchedulingDisabled ==
    ~env.enableScheduling =>
       /\ \A k \in Kinds : job[k] = "null"
       /\ \A k \in Kinds : fire[k].sendCalls = 0
       /\ ~startCalled

\* ------------------------------------------------------------------------
\* The ThreadManager objects of the bot process
\* ------------------------------------------------------------------------
\* index.js constructs one ThreadManager and the scheduler module another;
\* each keeps threadConfig.enabled as a field of its own.
BotInstances == {"index", "scheduler"}

\* The bot process after startup, both ThreadManagers constructed with
\* AUTO_CREATE_THREADS on.
ToggleInit ==
    /\ env = [ token |-> "ok", channelId |-> "ok", timezoneOk |-> TRUE,
               autoThreads |-> TRUE, initialThreadMessage |-> TRUE ]
    /\ proc = "serving"
    /\ exitCode = -1
    /\ configReport = validateConfiguration(env)
    /\ loginAttempted = TRUE
    /\ channelCheck = "passed"
    /\ startCalled = TRUE
    /\ job = [ k \in Kinds |-> "running" ]
    /\ http = "listening"
    /\ health = [ served |-> FALSE, morning_running |-> FALSE,
                  evening_running |-> FALSE ]
    /\ today = 3
    /\ fire = [ k \in Kinds |-> IdleFire(k) ]
    /\ eventCount = 0
    /\ manual = IdleManual
    /\ tmEnabled = [ i \in Instances |-> env.autoThreads ]
    /\ tmCall = [ c \in Callers |-> NoCall ]
    /\ directCount = 0
    /\ cv = ParkedValidator
    /\ chv = ParkedChannelValidator
    /\ sched = ParkedScheduler
    /\ shutdown = NoShutdown
    /\ probe = NoProbe

\* setThreadEnabled(enabled) on one of the two objects.
SetThreadEnabledOn(i, enabled) ==
    /\ proc = "serving"
    /\ i \in BotInstances
    /\ tmEnabled' = [ tmEnabled EXCEPT ![i] = enabled ]
    /\ UNCHANGED << unitVars, env, procVars, http, health, today, handlerVars,
                    eventCount, tmCall, directCount >>

\* createDSUThread(message, title, kind) on one of the two objects.
CreateDSUThreadOn(i, message, titleLen, kind) ==
    /\ proc = "serving"
    /\ i \in BotInstances
    /\ tmCall["direct"].pc \in {"none", "returned"}
    /\ directCount < MaxDirect
    /\ directCount' = directCount + 1
    /\ tmCall' = [ tmCall EXCEPT !["direct"] =
                     createDSUThreadBegin(i, tmEnabled[i], message, titleLen,
                                          kind) ]
    /\ UNCHANGED << unitVars, env, procVars, http, health, today, handlerVars,
                    eventCount, tmEnabled >>

ToggleNext ==
    \/ \E i \in BotInstances, enabled \in BOOLEAN :
          SetThreadEnabledOn(i, enabled)
    \/ \E i \in BotInstances, message \in Messages, titleLen \in TitleLens,
          kind \in Kinds :
          CreateDSUThreadOn(i, message, titleLen, kind)
    \/ \E answer \in StartThreadAnswers : StartThreadReturns("direct", answer)
    \/ \E ok \in BOOLEAN : ThreadSendReturns("direct", ok)

ToggleSpec == ToggleInit /\ [][ToggleNext]_vars

\* C28 (as claimed): the toggle is one state of the process: what
\* setThreadEnabled sets through one ThreadManager is what every
\* ThreadManager of the process reads, so after setThreadEnabled(false) no
\* createDSUThread call starts a thread until it is enabled again.
C28_ToggleProcessWide ==
    [][ /\ \A i \in BotInstances, enabled \in BOOLEAN :
             SetThreadEnabledOn(i, enabled) =>
                \A j \in BotInstances : tmEnabled'[j] = enabled
        /\ (\E i \in BotInstances : ~tmEnabled[i]) =>
              \A j \in BotInstances, message \in Messages,
                 titleLen \in TitleLens, kind \in Kinds :
                 CreateDSUThreadOn(j, message, titleLen, kind) =>
                    tmCall'["direct"].startThreads = 0 ]_vars

\* ------------------------------------------------------------------------
\* isWeekday() against the clock (schedulers/dsu-scheduler.js)
\* ------------------------------------------------------------------------
\* Time is counted in whole hours; hour 0 is a Sunday, 00:00 UTC.  The
\* instants tried are the hours of the second and third week, so that every
\* local time stays positive.
MaxInstant == 503
Instants == 168 .. MaxInstant

\* UTC offsets in hours: America/New_York in winter, UTC, Asia/Jakarta
\* (the default of the constructor).
Offsets == {-5, 0, 7}

\* A wall-clock reading: what the en-US date-time string says.
WallClock(hours) ==
    [ day |-> hours \div 24, weekday |-> (hours \div 24) % 7,
      hour |-> hours % 24 ]

\* now.toLocaleString('en-US', { timeZone }): the wall clock of the zone.
toLocaleString(instant, timeZone) == WallClock(instant + timeZone)

\* new Date(string): the string has no zone, so it is read as a wall clock
\* of the host's zone.
parseDate(wall, hostZone) == wall.day * 24 + wall.hour - hostZone

\* Variant: the day of the week in UTC.
getDay_utc(instant, hostZone) == (instant \div 24) % 7

\* Date.prototype.getDay(): the day of the week in the host's zone.
getDay(instant, hostZone) == ((instant + hostZone) \div 24) % 7

\* A scheduler with this.timezone on a host, before isWeekday() is called.
clockAt(instant, timeZone, hostZone) ==
    [ fn |-> "none", instant |-> instant, timeZone |-> timeZone,
      hostZone |-> hostZone ]

\* isWeekday() called at an instant, with this.timezone and the host zone.
isWeekdayAt(instant, timeZone, hostZone) ==
    LET localTime == parseDate(toLocaleString(instant, timeZone), hostZone)
        dayOfWeek == getDay(localTime, hostZone)
    IN  [ fn |-> "isWeekday", instant |-> instant, timeZone |-> timeZone,
          hostZone |-> hostZone, dayOfWeek |-> dayOfWeek,
          result |-> isWeekday(dayOfWeek) ]

WeekdayInit ==
    /\ BotParked
    /\ cv = ParkedValidator
    /\ chv = ParkedChannelValidator
    /\ sched = ParkedScheduler
    /\ shutdown = NoShutdown
    /\ \E timeZone \in Offsets, hostZone \in Offsets :
          probe = clockAt(167, timeZone, hostZone)

\* An hour passes and isWeekday() is called.
IsWeekdayCall(instant) ==
    /\ instant = probe.instant + 1
    /\ probe' = isWeekdayAt(instant, probe.timeZone, probe.hostZone)
    /\ UNCHANGED << botVars, cv, chv, sched, shutdown >>

WeekdayNext ==
    \E instant \in Instants : IsWeekdayCall(instant)

WeekdaySpec == WeekdayInit /\ [][WeekdayNext]_vars

\* The day of the week (0 = Sunday) on the calendar of a zone.
DayIn(instant, zone) ==
    CHOOSE d \in 0 .. 6 :
       \E week \in 0 .. 4, hour \in 0 .. 23 :
          instant + zone = week * 168 + d * 24 + hour

\* C25: isWeekday() is true exactly when the day of the instant on the
\* calendar of the configured timezone is Monday to Friday, whatever the
\* UTC day and the host's local day are.
C25_WeekdayInConfiguredZone ==
    probe.fn = "isWeekday" =>
       /\ probe.dayOfWeek = DayIn(probe.instant, probe.timeZone)
       /\ probe.result = (DayIn(probe.instant, probe.timeZone) \in {1, 2, 3, 4, 5})

\* Sunday evening in UTC and on the host, already Monday in the zone.
C25_Witness ==
    /\ probe.fn = "isWeekday"
    /\ probe.result
    /\ DayIn(probe.instant, 0) = 0
    /\ DayIn(probe.instant, probe.hostZone) = 0
    /\ DayIn(probe.instant, probe.timeZone) = 1

\* ------------------------------------------------------------------------
\* validateConfiguration() over the values of the settings
\* ------------------------------------------------------------------------
\* Color settings with MORNING_COLOR or WARNING_COLOR set, the others unset.
ColorSettings ==
    { [ NoColors EXCEPT ![i] = c ] : i \in {1, 4}, c \in ColorValues }

\* Environments of one validation: the required variables, the timezone,
\* the schedules, the colors, NODE_ENV and the memory thresholds vary.
DetailedEnvs ==
    { [ CleanEnv EXCEPT !.token = t, !.channelId = c, !.timezoneOk = z,
                        !.morning = m, !.evening = v, !.colors = k,
                        !.production = p, !.memWarning = w,
                        !.memCritical = x ] :
        t \in Tokens, c \in ChannelIdValues, z \in BOOLEAN,
        m \in {Unset, CustomCron, TextCron},
        v \in {Unset, SecondsCron, Hour25Cron},
        k \in ColorSettings, p \in BOOLEAN,
        w \in {MemUnset, MemValue(90)},
        x \in {MemUnset, MemValue(0), MemValue(80)} }

\* A script sets the environment up; no validator has run.
ConfigCheckInit ==
    /\ BotParked
    /\ cv = ParkedValidator
    /\ chv = ParkedChannelValidator
    /\ sched = ParkedScheduler
    /\ shutdown = NoShutdown
    /\ \E e \in DetailedEnvs : probe = [ fn |-> "none", env |-> e ]

\* new ConfigValidator().validateConfiguration()
ValidateConfigurationOnce ==
    /\ probe.fn = "none"
    /\ probe' = [ fn |-> "validateConfiguration", env |-> probe.env,
                  results |-> validateConfigurationOn(NewConfigResults,
                                                      probe.env, 0).results ]
    /\ UNCHANGED << botVars, cv, chv, sched, shutdown >>

ConfigCheckNext == ValidateConfigurationOnce

ConfigCheckSpec == ConfigCheckInit /\ [][ConfigCheckNext]_vars

\* C26: the report has passed = false and an error when the token is
\* missing, under 50 characters or has a character outside [A-Za-z0-9._-],
\* when the channel id is missing or not 17 to 19 digits, when the
\* timezone does not resolve, when a schedule is set to an invalid cron
\* expression, or when a color is set to something other than 6 hex digits;
\* and has passed = true and no error for a 60-character token, an 18-digit
\* channel id and nothing else set.
C26_ConfigFailsAndPasses ==
    probe.fn = "validateConfiguration" =>
       LET e == probe.env
           r == probe.results
           bad == \/ e.token.len < 50
                  \/ ~e.token.charsOk
                  \/ ~e.channelId.digits
                  \/ e.channelId.len \notin {17, 18, 19}
                  \/ ~e.timezoneOk
                  \/ e.morning \in InvalidCrons
                  \/ e.evening \in InvalidCrons
                  \/ \E i \in DOMAIN e.colors :
                        /\ e.colors[i] # ColorUnset
                        /\ e.colors[i] # [ len |-> 6, hex |-> TRUE ]
       IN  /\ bad => (~r.passed /\ Len(r.errors) > 0)
           /\ e = CleanEnv => (r.passed /\ r.errors = << >>)

C26_Witness ==
    /\ probe.fn = "validateConfiguration"
    /\ probe.env.channelId = [ len |-> 16, digits |-> TRUE ]
    /\ probe.env.colors[4] = [ len |-> 7, hex |-> TRUE ]
    /\ probe.results.errors = << "INVALID_DSU_CHANNEL_ID",
                                 "INVALID_WARNING_COLOR" >>
    /\ ~probe.results.passed

\* C27 (as claimed): whatever else is configured, a critical threshold that
\* is not above the warning threshold (each at its default when unset) is
\* reported as an error.
C27_MemoryThresholdsAlwaysChecked ==
    probe.fn = "validateConfiguration" =>
       LET warning == IF probe.env.memWarning.nan THEN 80
                      ELSE probe.env.memWarning.n
           critical == IF probe.env.memCritical.nan THEN 90
                       ELSE probe.env.memCritical.n
       IN  critical <= warning =>
              /\ \E j \in DOMAIN probe.results.errors :
                    probe.results.errors[j] = "INVALID_MEMORY_THRESHOLDS"
              /\ ~probe.results.passed

\* The step of validateChannel that fails in world w (8: none does).
FailStep(w) ==
    CASE w.channelId # "valid" -> 1
      [] w.fetch # "channel" -> 2
      [] w.chType \notin {0, 5} -> 3
      [] ~w.guild \/ ~w.clientUser \/ w.member # "member" -> 4
      [] w.perms \in {PermsMissingRequired, PermsNull} -> 5
      [] w.send # "ok" -> 6
      [] w.embed # "ok" -> 7
      [] OTHER -> 8

\* C30: validateChannel enters its steps in the order 1 to 7 and none after
\* the one that fails: a missing or malformed id makes no gateway call, and
\* a failure of the type, guild or permission step sends no probe message.
C30_ChannelFailFast ==
    \A n \in DOMAIN chv.returned :
       LET run == chv.returned[n]
           failed == FailStep(run.world)
       IN  /\ Len(run.steps) = (IF failed < 7 THEN failed ELSE 7)
           /\ \A k \in DOMAIN run.steps : run.steps[k] = k
           /\ failed = 1 =>
                 run.fetchCalls + run.memberFetches + run.sends = 0
           /\ failed = 2 => (run.fetchCalls = 1 /\ run.memberFetches = 0)
           /\ failed \in {3, 4, 5} => run.sends = 0
           /\ failed = 6 => run.sends = 1

C30_Witness ==
    \E n \in DOMAIN chv.returned :
       /\ chv.returned[n].world.perms = PermsMissingRequired
       /\ chv.returned[n].steps = << 1, 2, 3, 4, 5 >>
       /\ chv.returned[n].fetchCalls = 1
       /\ chv.returned[n].memberFetches = 1
       /\ chv.returned[n].sends = 0

\* C38: once start() has returned, a pair of expressions with exactly one
\* invalid member has been replaced by the two defaults, the valid custom
\* member included, and a pair of two valid expressions is registered as
\* the constructor read it.
C38_OneInvalidReplacesBoth ==
    sched.started = "returned" =>
       LET invalid == { k \in Kinds : sched.configured[k] \in InvalidCrons }
       IN  /\ Cardinality(invalid) = 1 =>
                 /\ sched.cron = DefaultCron
                 /\ \A k \in Kinds : sched.registered[k] = DefaultCron[k]
           /\ Cardinality(invalid) = 0 =>
                 \A k \in Kinds :
                    /\ sched.registered[k] = sched.cron[k]
                    /\ sched.configured[k] # Unset =>
                          sched.registered[k] = sched.configured[k]

C38_Witness ==
    /\ sched.started = "returned"
    /\ sched.configured["morning"] = CustomCron
    /\ sched.configured["evening"] = TextCron
    /\ sched.registered["morning"] = DefaultCron["morning"]
    /\ sched.registered["morning"] # CustomCron

\* C37 (as claimed): once a termination signal has made shutdown call
\* stop(), start() is not called: the 'ready' handler that was waiting for
\* the channel validation registers no job during teardown.
C37_NoStartAfterShutdown ==
    [][ shutdown.phase # "none" =>
           /\ startCalled' = startCalled
           /\ \A k \in Kinds : job[k] # "running" => job'[k] # "running" ]_vars

\* C40: the manual handler issues the send of a DSU message only for a
\* message of a non-bot author whose content is, up to letter case, one of
\* the two trigger commands (of the four commands it accepts), and only
\* when permissionsFor gives both SendMessages and EmbedLinks; for every
\* other message it issues no send and makes no thread call; one handled
\* message issues at most one send, to the invoking channel.
C40_ManualSendGuarded ==
    [][ /\ eventCount' # eventCount =>
           \A content \in {"!dsu-morning", "!DSU-Morning", "!dsu-evening"} :
              MessageCreate(FALSE, content,
                            [ isNull |-> FALSE,
                              has |-> {"SendMessages", "EmbedLinks"} ]) =>
                 /\ manual'.pc = "sending"
                 /\ manual'.sendCalls = 1
                 /\ manual'.channel = "invoking"
        /\ (/\ eventCount' # eventCount
            /\ \/ manual'.pc = "sending"
               \/ manual'.sendCalls # 0
               \/ manual'.threadCalls # 0) =>
              \A authorBot \in BOOLEAN, content \in Contents,
                 perms \in ManualPerms :
                 MessageCreate(authorBot, content, perms) =>
                    /\ ~authorBot
                    /\ content \in {"!dsu-morning", "!DSU-Morning",
                                    "!dsu-evening"}
                    /\ ~perms.isNull
                    /\ perms.has = {"SendMessages", "EmbedLinks"}
        /\ manual'.sendCalls <= 1
        /\ manual'.sendCalls > manual.sendCalls =>
              \E authorBot \in BOOLEAN, content \in Contents,
                 perms \in ManualPerms :
                 MessageCreate(authorBot, content, perms)
        /\ manual'.threadCalls > 0 => manual'.sent
        /\ manual'.sent => manual'.cmd \in {"!dsu-morning", "!dsu-evening"}
      ]_vars

C40_Witness ==
    /\ manual.pc = "done"
    /\ manual.cmd = "!dsu-evening"
    /\ manual.sent
    /\ manual.sendCalls = 1
    /\ manual.template = "evening"

\* ------------------------------------------------------------------------
\* The permission probe over every answer of permissionsFor
\* ------------------------------------------------------------------------
\* One validateChannel call of a fresh validator on a channel that passes
\* every other step, for each answer channel.permissionsFor can give.
PermissionInit ==
    /\ BotParked
    /\ cv = ParkedValidator
    /\ chv = ParkedChannelValidator
    /\ sched = ParkedScheduler
    /\ shutdown = NoShutdown
    /\ \E p \in PermissionAnswers : probe = [ fn |-> "none", perms |-> p ]

\* new ChannelValidator(client).validateChannel(channelId)
ValidateChannelOnce ==
    /\ probe.fn = "none"
    /\ probe' = [ fn |-> "validateChannel", perms |-> probe.perms,
                  out |-> validateChannelOn(NewChannelResults,
                             [ GoodWorld EXCEPT !.perms = probe.perms ]) ]
    /\ UNCHANGED << botVars, cv, chv, sched, shutdown >>

PermissionNext == ValidateChannelOnce

PermissionSpec == PermissionInit /\ [][PermissionNext]_vars

CountOf(s, x) == Cardinality({ i \in DOMAIN s : s[i] = x })

\* C31: when permissionsFor answers a bitfield, the permission step records
\* all four required and all three optional permissions, whatever is
\* missing; the missing required ones give one MISSING_REQUIRED_PERMISSIONS
\* error whose message lists exactly them (and none when nothing required
\* is missing); each missing optional one gives one warning and no error;
\* passed is true exactly when no required permission is missing.
C31_PermissionsAggregated ==
    (probe.fn = "validateChannel" /\ ~probe.perms.isNull) =>
       LET r == probe.out.results
           has == probe.perms.has
           missingReq == {"ViewChannel", "SendMessages", "EmbedLinks",
                          "ReadMessageHistory"} \ has
           missingOpt == {"ManageMessages", "AddReactions",
                          "UseExternalEmojis"} \ has
       IN  /\ DOMAIN r.permissions =
                 {"ViewChannel", "SendMessages", "EmbedLinks",
                  "ReadMessageHistory", "ManageMessages", "AddReactions",
                  "UseExternalEmojis"}
           /\ \A p \in DOMAIN r.permissions : r.permissions[p] = (p \in has)
           /\ CountOf(r.errors, "MISSING_REQUIRED_PERMISSIONS") =
                 IF missingReq = {} THEN 0 ELSE 1
           /\ NamesOf(probe.out.missingRequired) = missingReq
           /\ Len(probe.out.missingRequired) = Cardinality(missingReq)
           /\ CountOf(r.warnings, "MISSING_OPTIONAL_PERMISSION") =
                 Cardinality(missingOpt)
           /\ Len(r.warnings) = Cardinality(missingOpt)
           /\ missingReq = {} => r.errors = << >>
           /\ r.passed = (missingReq = {})

C31_Witness ==
    /\ probe.fn = "validateChannel"
    /\ ~probe.perms.isNull
    /\ probe.perms.has = {"ViewChannel", "ReadMessageHistory", "AddReactions"}
    /\ Len(probe.out.missingRequired) = 2
    /\ Len(probe.out.results.warnings) = 2
    /\ ~probe.out.results.passed

\* C39: a validateChannel call that returns passed = true has, in the report
\* it returns, a channel and a guild that are not null, the four required
\* permissions recorded as granted and no error; the channel it fetched is
\* of type 0 or 5, and the call sent both probes, each answered with
\* success.
C39_PassedReportComplete ==
    \A n \in DOMAIN chv.returned :
       LET run == chv.returned[n]
       IN  run.report.passed =>
              /\ run.report.channel # "null"
              /\ run.report.guild # "null"
              /\ run.world.fetch = "channel"
              /\ run.world.chType \in {0, 5}
              /\ \A p \in {"ViewChannel", "SendMessages", "EmbedLinks",
                           "ReadMessageHistory"} :
                    /\ p \in DOMAIN run.report.permissions
                    /\ run.report.permissions[p]
              /\ run.report.errors = << >>
              /\ run.sends = 2
              /\ run.world.send = "ok"
              /\ run.world.embed = "ok"
              /\ run.steps = << 1, 2, 3, 4, 5, 6, 7 >>

C39_Witness ==
    \E n \in DOMAIN chv.returned :
       /\ chv.returned[n].report.passed
       /\ chv.returned[n].world.perms = PermsNoOptional
       /\ Len(chv.returned[n].report.warnings) = 3
       /\ chv.returned[n].sends = 2

\* ------------------------------------------------------------------------
\* The cron callback under any environment
\* ------------------------------------------------------------------------
\* One registered trigger of a DSUScheduler, fired on a given day with
\* DSU_CHANNEL_ID set or not, each gateway call answered in every way.
FireInit ==
    /\ BotParked
    /\ cv = ParkedValidator
    /\ chv = ParkedChannelValidator
    /\ sched = ParkedScheduler
    /\ shutdown = NoShutdown
    /\ \E k \in Kinds, d \in Days, c \in {"ok", "missing"} :
          probe = [ fn |-> "cronCallback", kind |-> k, day |-> d,
                    channelId |-> c, job |-> "running", fires |-> 0,
                    fetchAnswer |-> "none", sendAnswer |-> "none",
                    fire |-> IdleFire(k) ]

\* node-cron runs the callback of the trigger.
FireCallback ==
    /\ probe.fn = "cronCallback"
    /\ probe.job = "running"
    /\ probe.fire.pc \in {"idle", "done"}
    /\ probe.fires < MaxFires
    /\ probe' = [ probe EXCEPT
                    !.fires = @ + 1,
                    !.fetchAnswer = "none", !.sendAnswer = "none",
                    !.fire = cronCallback(probe.kind, probe.day,
                                          probe.channelId) ]
    /\ UNCHANGED << botVars, cv, chv, sched, shutdown >>

\* client.channels.fetch(channelId) settles.
FireFetchReturns(answer) ==
    /\ probe.fn = "cronCallback"
    /\ probe.fire.pc = "fetching"
    /\ probe' = [ probe EXCEPT !.fetchAnswer = answer,
                               !.fire = afterFetch(@, answer) ]
    /\ UNCHANGED << botVars, cv, chv, sched, shutdown >>

\* channel.send(template) settles; the thread step follows a success.
FireSendReturns(ok) ==
    /\ probe.fn = "cronCallback"
    /\ probe.fire.pc = "sending"
    /\ probe' = [ probe EXCEPT !.sendAnswer = IF ok THEN "message" ELSE "error",
                               !.fire = afterSend(@, ok) ]
    /\ UNCHANGED << botVars, cv, chv, sched, shutdown >>

FireNext ==
    \/ FireCallback
    \/ \E answer \in {"channel", "nothing", "error"} : FireFetchReturns(answer)
    \/ \E ok \in BOOLEAN : FireSendReturns(ok)

FireSpec == FireInit /\ [][FireNext]_vars

\* C32: a cron callback that runs on a weekday without DSU_CHANNEL_ID ends
\* with no fetch and no send issued; one whose fetch threw or gave nothing
\* ends with no send and no thread call issued; in both cases nothing is
\* raised, the trigger is still running, and its callback can run again.
C32_UnresolvedChannelSendsNothing ==
    (probe.fn = "cronCallback" /\ probe.fires > 0 /\ probe.day \in 1..5) =>
       LET f == probe.fire
       IN  /\ probe.channelId = "missing" =>
                 /\ f.pc = "done"
                 /\ f.fetchCalls = 0
                 /\ f.sendCalls = 0
                 /\ f.threadCalls = 0
                 /\ ~f.raised
           /\ probe.fetchAnswer \in {"nothing", "error"} =>
                 /\ f.pc = "done"
                 /\ f.fetchCalls = 1
                 /\ f.sendCalls = 0
                 /\ ~f.sent
                 /\ f.threadCalls = 0
                 /\ ~f.raised
           /\ (probe.channelId = "missing"
                  \/ probe.fetchAnswer \in {"nothing", "error"}) =>
                 /\ probe.job = "running"
                 /\ probe.fires < MaxFires => ENABLED FireCallback

C32_Witness ==
    /\ probe.fn = "cronCallback"
    /\ probe.day \in 1..5
    /\ probe.channelId = "missing"
    /\ probe.fires = 2
    /\ probe.fire.pc = "done"
    /\ probe.fire.log = << "attempt", "noChannelId" >>

\* C33: whatever the gateway answers during a scheduled fire, the handler
\* raises nothing: a fetch or a send that threw has ended the handler in
\* its catch block, and while or after a handler runs its trigger is still
\* running, the process is still serving, and the trigger can fire again.
C33_FireErrorsContained ==
    \A k \in Kinds :
       /\ ~fire[k].raised
       /\ Has(fire[k].log, "sendError") =>
             /\ fire[k].pc = "done"
             /\ fire[k].threadCalls = 0
       /\ fire[k].pc # "idle" =>
             /\ proc = "serving"
             /\ exitCode = -1
             /\ \A j \in Kinds : job[j] = "running"
       /\ (fire[k].pc = "done" /\ eventCount < MaxEvents) =>
             ENABLED TriggerFire(k)

C33_Witness ==
    \E k \in Kinds :
       /\ fire[k].pc = "done"
       /\ fire[k].fetchCalls = 1
       /\ fire[k].sendCalls = 0
       /\ fire[k].log = << "attempt", "sendError" >>
       /\ job[k] = "running"

\* C34: with both handlers in flight on the same weekday, a step of one
\* handler leaves the other handler's record and thread call as they were;
\* a send answered with success marks that handler's own message as sent,
\* once, from its own template and to the configured channel, whatever the
\* state or the outcome of the other handler; a thread call of a handler is
\* made for its own kind after its own send.
C34_HandlersIndependent ==
    [][ \A k \in Kinds :
          LET o == CHOOSE x \in Kinds : x # k
          IN  /\ fire'[k] # fire[k] =>
                    /\ fire'[o] = fire[o]
                    /\ tmCall'[o] = tmCall[o]
              /\ (\E message \in SentMessages : SendReturns(k, TRUE, message)) =>
                    /\ fire'[k].sent
                    /\ fire'[k].sendCalls = 1
                    /\ fire'[k].template = k
                    /\ fire'[k].channel = "configured"
              /\ (fire'[k].sent /\ fire'[o].sent) =>
                    /\ fire'[k].template = k /\ fire'[k].sendCalls = 1
                    /\ fire'[o].template = o /\ fire'[o].sendCalls = 1
              /\ (tmCall'[k] # tmCall[k] /\ tmCall'[k].pc # "none") =>
                    /\ fire'[k].sent
                    /\ tmCall'[k].kind = k ]_vars

C34_Witness ==
    /\ today \in 1..5
    /\ fire["morning"].pc = "done" /\ fire["evening"].pc = "done"
    /\ fire["morning"].sent /\ ~fire["evening"].sent
    /\ fire["morning"].template = "morning"
    /\ fire["evening"].template = "evening"
    /\ Has(fire["evening"].log, "sendError")

\* ------------------------------------------------------------------------
\* start() called again on the exported scheduler
\* ------------------------------------------------------------------------
\* The fields a start() call assigns before it returns or throws.
assignedByStart(startOutcome) ==
    CASE startOutcome = "ok" -> Kinds
      [] startOutcome = "throwMorning" -> {}
      [] OTHER -> {"morning"}

\* dsuScheduler.start(client) on a scheduler that was started before: the
\* job fields are assigned anew, and a job that was running when its field
\* is overwritten keeps running in node-cron with no reference left to it.
SchedulerStartAgain(startOutcome) ==
    /\ sched.active
    /\ sched.started = "returned"
    /\ sched.restarts < MaxRestarts
    /\ LET crons == startCronExpressions(sched.cron)
           jobs == schedulerStart(sched.job, startOutcome)
       IN  sched' = [ sched EXCEPT
                        !.cron = crons,
                        !.job = jobs,
                        !.registered =
                           [ k \in Kinds |->
                               IF jobs[k] = "running" THEN crons[k]
                               ELSE Unset ],
                        !.started = IF startOutcome = "ok" THEN "returned"
                                    ELSE "threw",
                        !.restarts = @ + 1,
                        !.orphans =
                           [ k \in Kinds |->
                               IF k \in assignedByStart(startOutcome)
                                  /\ sched.job[k] = "running"
                               THEN @[k] + 1 ELSE @[k] ] ]
    /\ UNCHANGED << botVars, cv, chv, shutdown, probe >>

\* node-cron reaches a time the expression of an unreferenced job matches.
OrphanTick(k) ==
    /\ sched.active
    /\ sched.orphans[k] > 0
    /\ sched.ticks < MaxTicks
    /\ sched' = [ sched EXCEPT
                    !.ticks = @ + 1,
                    !.ranAfterStop = @ \/ sched.stoppedAfterStart ]
    /\ UNCHANGED << botVars, cv, chv, shutdown, probe >>

RestartNext ==
    \/ \E startOutcome \in {"ok", "throwMorning", "throwEvening"} :
          SchedulerStart(startOutcome)
    \/ \E startOutcome \in {"ok", "throwMorning", "throwEvening"} :
          SchedulerStartAgain(startOutcome)
    \/ SchedulerStop
    \/ \E k \in Kinds : SchedulerTick(k)
    \/ \E k \in Kinds : OrphanTick(k)

RestartSpec == SchedulerInit /\ [][RestartNext]_vars

\* C36 (as claimed): once stop() has returned and no later start() has
\* registered jobs, no job created by any start() is running: neither one
\* a field refers to nor one whose reference a second start() overwrote.
C36_StopStopsEveryStart ==
    (sched.stops > 0 /\ \A k \in Kinds : sched.job[k] # "running") =>
       \A k \in Kinds : sched.orphans[k] = 0

\* ------------------------------------------------------------------------
\* getReadableSchedule (schedulers/dsu-scheduler.js)
\* ------------------------------------------------------------------------
\* A string is the sequence of its characters.
DigitChars == << "0", "1", "2", "3", "4", "5", "6", "7", "8", "9" >>
isDigit(c) == \E d \in 1..10 : DigitChars[d] = c
digitValue(c) == (CHOOSE d \in 1..10 : DigitChars[d] = c) - 1

\* String.prototype.split(' '): the pieces between the spaces, empty pieces
\* included.
RECURSIVE splitAcc(_, _, _)
splitAcc(s, cur, acc) ==
    IF s = << >> THEN Append(acc, cur)
    ELSE IF Head(s) = " " THEN splitAcc(Tail(s), << >>, Append(acc, cur))
    ELSE splitAcc(Tail(s), Append(cur, Head(s)), acc)
split(s) == splitAcc(s, << >>, << >>)

\* parseInt(text) without a radix, for text without leading white space:
\* an optional sign, then the longest run of decimal digits; NaN when there
\* is no digit.
RECURSIVE parseDigits(_, _, _)
parseDigits(s, n, any) ==
    IF s = << >> \/ ~isDigit(Head(s)) THEN [ nan |-> ~any, n |-> n ]
    ELSE parseDigits(Tail(s), 10 * n + digitValue(Head(s)), TRUE)
parseInt(s) ==
    IF s # << >> /\ Head(s) \in {"-", "+"}
    THEN LET r == parseDigits(Tail(s), 0, FALSE)
         IN  IF Head(s) = "-" THEN [ r EXCEPT !.n = 0 - @ ] ELSE r
    ELSE parseDigits(s, 0, FALSE)

\* Number.prototype.toString() of an integer or NaN.
RECURSIVE decimal(_)
decimal(n) ==
    IF n < 10 THEN << DigitChars[n + 1] >>
    ELSE Append(decimal(n \div 10), DigitChars[(n % 10) + 1])
numberToString(num) ==
    IF num.nan THEN << "N", "a", "N" >>
    ELSE IF num.n < 0 THEN << "-" >> \o decimal(0 - num.n)
    ELSE decimal(num.n)

\* padStart(2, '0')
padStart(s) == IF Len(s) >= 2 THEN s ELSE << "0" >> \o s

MonFriText == << " ", "(", "M", "o", "n", "-", "F", "r", "i", ")" >>
DailyText == << " ", "(", "D", "a", "i", "l", "y", ")" >>
DowText(raw) == << " ", "(", "D", "O", "W", ":", " " >> \o raw \o << ")" >>

\* Variant: noon is shown as 0 PM (hourNum >= 12 ? hourNum - 12 : ...).
displayHour_noonIsZero(hourNum) ==
    IF ~hourNum.nan /\ hourNum.n >= 12 THEN [ hourNum EXCEPT !.n = @ - 12 ]
    ELSE IF ~hourNum.nan /\ hourNum.n = 0 THEN [ hourNum EXCEPT !.n = 12 ]
    ELSE hourNum

\* hourNum > 12 ? hourNum - 12 : (hourNum === 0 ? 12 : hourNum); every
\* comparison with NaN is false.
displayHour(hourNum) ==
    IF ~hourNum.nan /\ hourNum.n > 12 THEN [ hourNum EXCEPT !.n = @ - 12 ]
    ELSE IF ~hourNum.nan /\ hourNum.n = 0 THEN [ hourNum EXCEPT !.n = 12 ]
    ELSE hourNum

\* getReadableSchedule(cronExpression).  A value that is no string has no
\* split method: the TypeError is caught and the value is returned.
getReadableSchedule(cronExpression) ==
    IF ~cronExpression.isString
    THEN [ threw |-> FALSE, value |-> cronExpression ]
    ELSE LET parts == split(cronExpression.chars)
         IN  IF Len(parts) >= 5
             THEN LET minute == parts[1]
                      hour == parts[2]
                      dayOfWeek == parts[5]
                      hourNum == parseInt(hour)
                      minNum == parseInt(minute)
                      ampm == IF ~hourNum.nan /\ hourNum.n >= 12
                              THEN << "P", "M" >> ELSE << "A", "M" >>
                      timeStr ==
                         IF hour # << "*" >> /\ minute # << "*" >>
                         THEN numberToString(displayHour(hourNum))
                              \o << ":" >>
                              \o padStart(numberToString(minNum))
                              \o << " " >> \o ampm
                         ELSE << >>
                      dayStr ==
                         IF dayOfWeek = << "1", "-", "5" >> THEN MonFriText
                         ELSE IF dayOfWeek = << "*" >> THEN DailyText
                         ELSE DowText(dayOfWeek)
                  IN  [ threw |-> FALSE,
                        value |-> [ isString |-> TRUE,
                                    chars |-> timeStr \o dayStr ] ]
             ELSE [ threw |-> FALSE, value |-> cronExpression ]

\* Array.prototype.join(' ')
RECURSIVE join(_)
join(fields) ==
    IF Len(fields) = 0 THEN << >>
    ELSE IF Len(fields) = 1 THEN fields[1]
    ELSE fields[1] \o << " " >> \o join(Tail(fields))

HourFields ==
    { << "0" >>, << "9" >>, << "1", "1" >>, << "1", "2" >>, << "1", "3" >>, << "1", "7" >>, << "2", "3" >>, << "*" >>, << "*", "/", "2" >> }
MinuteFields ==
    { << "0" >>, << "5" >>, << "3", "0" >>, << "5", "9" >>, << "*" >>, << "*", "/", "3", "0" >> }
DowFields ==
    { << "1", "-", "5" >>, << "*" >>, << "1" >>, << "0", ",", "6" >> }
StarField == << "*" >>
Text(chars) == [ isString |-> TRUE, chars |-> chars ]
NotAString == [ isString |-> FALSE, chars |-> << >> ]     \* undefined

\* The expressions getReadableSchedule is applied to: five-field ones over
\* the fields above, a six-field one, one with a doubled space, shorter
\* texts, the empty text, and a value that is no string.
ScheduleInputs ==
    { Text(join(<< m, h, StarField, StarField, d >>)) :
         m \in MinuteFields, h \in HourFields, d \in DowFields }
    \cup { Text(<< "0", " ", "0", " ", "1", "8", " ", "*", " ", "*", " ", "1", "-", "5" >>),
           Text(<< "0", " ", " ", "9", " ", "*", " ", "*", " ", "1", "-", "5" >>),
           Text(<< "n", "o", "t", "-", "a", "-", "c", "r", "o", "n" >>),
           Text(<< "0", " ", "9", " ", "*", " ", "*" >>),
           Text(<< >>),
           NotAString }

ReadableInit ==
    /\ BotParked
    /\ cv = ParkedValidator
    /\ chv = ParkedChannelValidator
    /\ sched = ParkedScheduler
    /\ shutdown = NoShutdown
    /\ \E e \in ScheduleInputs : probe = [ fn |-> "none", input |-> e ]

\* dsuScheduler.getReadableSchedule(cronExpression)
GetReadableSchedule ==
    /\ probe.fn = "none"
    /\ probe' = [ fn |-> "getReadableSchedule", input |-> probe.input,
                  out |-> getReadableSchedule(probe.input) ]
    /\ UNCHANGED << botVars, cv, chv, sched, shutdown >>

ReadableNext == GetReadableSchedule

ReadableSpec == ReadableInit /\ [][ReadableNext]_vars

C35_Hours ==
    { [ f |-> << "0" >>, shown |-> << "1", "2" >>, ampm |-> "A" ],
      [ f |-> << "9" >>, shown |-> << "9" >>, ampm |-> "A" ],
      [ f |-> << "1", "1" >>, shown |-> << "1", "1" >>, ampm |-> "A" ],
      [ f |-> << "1", "2" >>, shown |-> << "1", "2" >>, ampm |-> "P" ],
      [ f |-> << "1", "3" >>, shown |-> << "1" >>, ampm |-> "P" ],
      [ f |-> << "1", "7" >>, shown |-> << "5" >>, ampm |-> "P" ],
      [ f |-> << "2", "3" >>, shown |-> << "1", "1" >>, ampm |-> "P" ] }
C35_Minutes ==
    { [ f |-> << "0" >>, shown |-> << "0", "0" >> ],
      [ f |-> << "5" >>, shown |-> << "0", "5" >> ],
      [ f |-> << "3", "0" >>, shown |-> << "3", "0" >> ],
      [ f |-> << "5", "9" >>, shown |-> << "5", "9" >> ] }
C35_Dows ==
    { [ f |-> << "1", "-", "5" >>,
        shown |-> << " ", "(", "M", "o", "n", "-", "F", "r", "i", ")" >> ],
      [ f |-> << "*" >>,
        shown |-> << " ", "(", "D", "a", "i", "l", "y", ")" >> ],
      [ f |-> << "1" >>,
        shown |-> << " ", "(", "D", "O", "W", ":", " ", "1", ")" >> ],
      [ f |-> << "0", ",", "6" >>,
        shown |-> << " ", "(", "D", "O", "W", ":", " ", "0", ",", "6", ")" >> ] }
SpacesIn(s) == Cardinality({ i \in DOMAIN s : s[i] = " " })

\* C35: getReadableSchedule returns without throwing for every input; for
\* 'm h * * d' with hour h in 0..23 and minute m in 0..59 the result is the
\* 12-hour time (0 -> 12 AM, 1..11 -> h AM, 12 -> 12 PM, 13..23 -> h-12 PM,
\* the minute in two digits) followed by ' (Mon-Fri)' for d = '1-5',
\* ' (Daily)' for d = '*' and ' (DOW: d)' otherwise; a text with fewer than
\* five space-separated fields, and a value that is no string, come back
\* unchanged.
C35_ReadableSchedule ==
    probe.fn = "getReadableSchedule" =>
       /\ ~probe.out.threw
       /\ \A h \in C35_Hours, m \in C35_Minutes, d \in C35_Dows :
             probe.input = Text(m.f \o << " " >> \o h.f
                                    \o << " ", "*", " ", "*", " " >> \o d.f) =>
                probe.out.value =
                   Text(h.shown \o << ":" >> \o m.shown \o << " " >>
                                \o << h.ampm, "M" >> \o d.shown)
       /\ (probe.input.isString /\ SpacesIn(probe.input.chars) < 4) =>
             probe.out.value = probe.input
       /\ ~probe.input.isString => probe.out.value = probe.input

C35_Witness ==
    /\ probe.fn = "getReadableSchedule"
    /\ probe.input = Text(<< "0", " ", "1", "7", " ", "*", " ", "*", " ", "1", "-", "5" >>)
    /\ probe.out.value = Text(<< "5", ":", "0", "0", " ", "P", "M", " ", "(", "M", "o", "n", "-", "F", "r", "i", ")" >>)

====
